---- MODULE Spec2Model ----
(***************************************************************************)
(* A model of azurite-rs: the in-memory metadata store, the extent store   *)
(* and the request handlers that run against them.                         *)
(*                                                                         *)
(* One account (devstoreaccount1) is modelled, so the account component of *)
(* every key is left out.  UUIDs (ETags, extent ids) are drawn from        *)
(* counters: the only property of a UUID the handlers rely on is that it   *)
(* is fresh.  The soft-delete flag `deleted` is never set by any handler   *)
(* and is left out.                                                        *)
(***************************************************************************)
EXTENDS Integers, Sequences, FiniteSets, TLC

(***************************************************************************)
(* Bounds of the model.                                                    *)
(***************************************************************************)
\* Requests the server answers in a run.
MaxRequests == 4
\* Snapshots that may be taken (the snapshot clock stops there).
MaxSnap == 1
\* Longest block list of a commit-block-list request.
MaxListLen == 2
\* Concurrent tasks.
MaxTasks == 3
\* Longest blob name of a listing, in characters.
MaxNameLen == 3
\* Requests the server answers in a run of uploads, deletes and listings.
MaxListRequests == 3
\* The largest maxresults of a list request.
MaxResults == 2
\* The largest byte offset of a Range header.
MaxOffset == 3
\* The largest ETag of a conditional header.
MaxETag == 2
\* The second up to which time passes.
MaxClock == 20
MaxAuthRequests == 2
MaxExtentOps == 4
MaxShortName == 4
MaxNameRequests == 2
MaxStored == 3
MaxRangeRequests == 3
U64Values == 65536

(***************************************************************************)
(* The inputs.                                                             *)
(***************************************************************************)
Containers == {"c1", "c2"}
BlobNames == {"b1"}
\* The x-ms-lease-id / x-ms-proposed-lease-id values; None is "header absent".
None == "none"
LeaseIds == {"L1", "L2"}
LeaseHeaders == LeaseIds \cup {None}
\* Request bodies: byte strings.
Bodies == {<<>>, <<1>>, <<2, 3>>}
BlockIds == {"x", "y"}
BlockKinds == {"Latest", "Uncommitted", "Committed"}
\* x-ms-meta-* headers of a request; "m0" is the empty map.
EmptyMeta == "m0"
Metas == {"m0", "m1"}
\* Tag sets; "t0" is the empty map.
EmptyTags == "t0"
TagSets == {"t0", "t1"}
Tiers == {"Hot", "Cool"}
ContentTypes == {"application/octet-stream", "text/plain"}
\* The snapshot "" of a key: the base blob.
BaseSnapshot == 0
\* models/page.rs
PAGE_SIZE == 512
\* x-ms-blob-content-length values of a page blob request.
PageLengths == {512, 1024, 700}
\* Range headers of a page request: <<start, end>>.
PageRanges == {<<0, 511>>, <<512, 1023>>, <<0, 99>>}
Tasks == 1..MaxTasks

VARIABLES
    containers,   \* MemoryMetadataStore.containers: name -> ContainerModel
    blobs,        \* MemoryMetadataStore.blobs: <<container, name, snapshot>> -> BlobModel
    blob_index,   \* MemoryMetadataStore.blob_index: container -> set of blob names
    blocks,       \* MemoryMetadataStore.blocks: <<container, blob, block_id>> -> BlockModel
    block_index,  \* MemoryMetadataStore.block_index: <<container, blob>> -> set of block ids
    extents,      \* MemoryExtentStore.shards: extent id -> bytes (beside its
                  \* current_size where a size limit is configured)
    nextEtag,     \* ETags drawn so far
    nextExtent,   \* extent ids drawn so far
    clock,        \* Utc::now(), in the 100 ns unit of a snapshot timestamp
    last,         \* the latest response
    served,       \* the number of requests answered
    tasks         \* the requests in flight, each at its position in its handler;
                  \* where requests are served one at a time, the request or
                  \* the client of the specification

storeVars == <<containers, blobs, blob_index, blocks, block_index, extents>>
vars == <<containers, blobs, blob_index, blocks, block_index, extents,
          nextEtag, nextExtent, clock, last, served, tasks>>

(***************************************************************************)
(* Maps (DashMap / HashMap).                                               *)
(***************************************************************************)
EmptyMap == [x \in {} |-> 0]
Put(m, k, v) == [x \in (DOMAIN m) \cup {k} |-> IF x = k THEN v ELSE m[x]]
Remove(m, k) == [x \in (DOMAIN m) \ {k} |-> m[x]]

RECURSIVE SumSeq(_)
SumSeq(s) == IF s = <<>> THEN 0 ELSE Head(s) + SumSeq(Tail(s))

RECURSIVE Flatten(_)
Flatten(ss) == IF ss = <<>> THEN <<>> ELSE Head(ss) \o Flatten(Tail(ss))

\* All sequences over S of length at most n.
SeqsUpTo(S, n) == UNION {[1..k -> S] : k \in 0..n}

(***************************************************************************)
(* error.rs: the HTTP status of an error code.                             *)
(***************************************************************************)
status_code(code) ==
    IF code \in {"InvalidHeaderValue", "InvalidRange", "InvalidResourceName",
                 "MissingRequiredHeader", "InvalidBlobType", "InvalidBlockList",
                 "InvalidOperation", "InvalidPageRange",
                 "BlockCountExceedsLimit"} THEN 400
    ELSE IF code \in {"AuthenticationFailed"} THEN 401
    ELSE IF code \in {"AuthorizationFailure", "AuthorizationPermissionMismatch",
                      "AuthorizationResourceTypeMismatch",
                      "AuthorizationServiceMismatch"} THEN 403
    ELSE IF code \in {"BlobNotFound", "ContainerNotFound"} THEN 404
    ELSE IF code \in {"ContainerAlreadyExists", "LeaseAlreadyPresent",
                      "LeaseIdMismatchWithBlobOperation",
                      "LeaseIdMismatchWithContainerOperation",
                      "LeaseIsBrokenAndCannotBeRenewed",
                      "LeaseNotPresentWithBlobOperation",
                      "LeaseNotPresentWithContainerOperation"} THEN 409
    ELSE IF code \in {"AppendPositionConditionNotMet", "ConditionNotMet",
                      "LeaseIdMissing", "MaxBlobSizeConditionNotMet",
                      "SequenceNumberConditionNotMet"} THEN 412
    ELSE IF code = "InvalidRange" THEN 416
    ELSE IF code = "InternalError" THEN 500
    ELSE 400

(***************************************************************************)
(* models/blob.rs, models/container.rs, models/block.rs                    *)
(***************************************************************************)
\* Option<T> of a number or a flag: None, Some(v).
Nothing == <<>>
Some(v) == <<v>>
unwrap_or(opt, default) == IF opt = Nothing THEN default ELSE opt[1]

ExtentChunk(id, offset, count) == [id |-> id, offset |-> offset, count |-> count]

\* BlobProperties::new + BlobModel::new, with the ETag drawn by the caller.
BlobModel_new(blob_type, content_length, etag) ==
    [ blob_type |-> blob_type,
      content_length |-> content_length,
      content_type |-> "application/octet-stream",
      etag |-> etag,
      access_tier |-> "Hot",
      lease_state |-> "Available",
      lease_status |-> "Unlocked",
      lease_duration |-> None,
      lease_id |-> None,
      lease_expiry |-> Nothing,
      lease_break_time |-> Nothing,
      sequence_number |-> IF blob_type = "PageBlob" THEN Some(0) ELSE Nothing,
      committed_block_count |-> IF blob_type = "AppendBlob" THEN Some(0) ELSE Nothing,
      is_sealed |-> IF blob_type = "AppendBlob" THEN Some(FALSE) ELSE Nothing,
      copy_status |-> Nothing,
      metadata |-> EmptyMeta,
      tags |-> EmptyTags,
      extent_chunks |-> <<>> ]

\* BlobProperties::update_etag
update_etag(blob, etag) == [blob EXCEPT !.etag = etag]

\* ContainerModel::new
ContainerModel_new(etag) ==
    [ etag |-> etag,
      lease_state |-> "Available",
      lease_status |-> "Unlocked",
      lease_duration |-> None,
      lease_id |-> None,
      lease_expiry |-> Nothing,
      lease_break_time |-> Nothing,
      metadata |-> EmptyMeta ]

\* BlockModel::new
BlockModel_new(block_id, size, chunk) ==
    [block_id |-> block_id, size |-> size, extent_chunk |-> chunk]

(***************************************************************************)
(* storage/extent.rs: MemoryExtentStore (no size limit configured).        *)
(***************************************************************************)
\* ExtentStore::read_range: the bytes, or InternalError.
extent_read_range(ext, chunk, offset, count) ==
    IF chunk.id \notin DOMAIN ext
    THEN [err |-> "InternalError"]
    ELSE LET start == chunk.offset + offset
             end == start + count
         IN IF end > Len(ext[chunk.id])
            THEN [err |-> "InternalError"]
            ELSE [err |-> "OK", data |-> SubSeq(ext[chunk.id], start + 1, end)]

\* ExtentStore::read
extent_read(ext, chunk) == extent_read_range(ext, chunk, 0, chunk.count)

\* ExtentStore::write: the store with the bytes under a fresh id.
extent_write(ext, id, data) == Put(ext, id, data)

\* ExtentStore::delete: idempotent.
extent_delete(ext, id) == Remove(ext, id)

RECURSIVE extent_delete_all(_, _)
extent_delete_all(ext, chunks) ==
    IF chunks = <<>> THEN ext
    ELSE extent_delete_all(extent_delete(ext, Head(chunks).id), Tail(chunks))

(***************************************************************************)
(* storage/metadata.rs: MemoryMetadataStore.                               *)
(***************************************************************************)
container_exists(c) == c \in DOMAIN containers

\* get_container
get_container(c) ==
    IF c \in DOMAIN containers
    THEN [err |-> "OK", container |-> containers[c]]
    ELSE [err |-> "ContainerNotFound"]

\* get_blob: ContainerNotFound takes precedence over BlobNotFound.
get_blob(c, n, s) ==
    IF ~container_exists(c) THEN [err |-> "ContainerNotFound"]
    ELSE IF <<c, n, s>> \in DOMAIN blobs
         THEN [err |-> "OK", blob |-> blobs[<<c, n, s>>]]
         ELSE [err |-> "BlobNotFound"]

\* An index entry that holds the latest name alone.
create_blob_index_latest(idx, c, n) == Put(idx, c, {n})

\* create_blob: the index entry, then the upsert; no look at the container.
create_blob_index(idx, c, n) ==
    Put(idx, c, (IF c \in DOMAIN idx THEN idx[c] ELSE {}) \cup {n})
create_blob_blobs(bl, c, n, s, blob) == Put(bl, <<c, n, s>>, blob)

\* update_blob: an upsert of the primary map alone.
update_blob_blobs(bl, c, n, s, blob) == Put(bl, <<c, n, s>>, blob)

\* delete_blob (the container exists): the entry, and the index entry of a base blob.
delete_blob_blobs(bl, c, n, s) == Remove(bl, <<c, n, s>>)
delete_blob_index(idx, c, n, s) ==
    IF s = BaseSnapshot /\ c \in DOMAIN idx
    THEN [idx EXCEPT ![c] = @ \ {n}]
    ELSE idx

\* stage_block: the index entry, then the upsert.
stage_block_index(bidx, c, n, id) ==
    Put(bidx, <<c, n>>, (IF <<c, n>> \in DOMAIN bidx THEN bidx[<<c, n>>] ELSE {}) \cup {id})
stage_block_blocks(bks, c, n, id, block) == Put(bks, <<c, n, id>>, block)

\* get_staged_blocks: the blocks the index names that the primary map holds.
get_staged_blocks(c, n) ==
    LET ids == IF <<c, n>> \in DOMAIN block_index THEN block_index[<<c, n>>] ELSE {}
    IN {blocks[<<c, n, id>>] : id \in {i \in ids : <<c, n, i>> \in DOMAIN blocks}}

\* delete_staged_blocks: the index entry is removed, then each block it named.
delete_staged_blocks_index(bidx, c, n) == Remove(bidx, <<c, n>>)
delete_staged_blocks_blocks(bks, bidx, c, n) ==
    LET ids == IF <<c, n>> \in DOMAIN bidx THEN bidx[<<c, n>>] ELSE {}
    IN [k \in (DOMAIN bks) \ {<<c, n, id>> : id \in ids} |-> bks[k]]

(***************************************************************************)
(* The response of a request: the handler that answered, the resource of   *)
(* the request line, the error code (OK when there is none) and the HTTP   *)
(* status.  With the response of a commit-block-list that succeeded goes   *)
(* the block list it committed, as the request gave it.                    *)
(***************************************************************************)
Response(op, c, b, s, code, status, committed) ==
    [op |-> op, c |-> c, b |-> b, s |-> s, code |-> code, status |-> status,
     committed |-> committed, lease_time |-> Nothing,
     data |-> <<>>, content_range |-> Nothing, listing |-> Nothing]

\* into_response of a StorageError: nothing was stored.
Reject(op, c, b, s, code) ==
    /\ last' = Response(op, c, b, s, code, status_code(code), <<>>)
    /\ UNCHANGED <<containers, blobs, blob_index, blocks, block_index, extents,
                   nextEtag, nextExtent, clock, tasks>>

\* A connection task that has not read a request yet.
IdleTask == [pc |-> "idle", name |-> None, etag |-> 0, code |-> None, status |-> 0]

\* The state after construction: empty stores, no request answered yet.
Init ==
    /\ containers = EmptyMap
    /\ blobs = EmptyMap
    /\ blob_index = EmptyMap
    /\ blocks = EmptyMap
    /\ block_index = EmptyMap
    /\ extents = EmptyMap
    /\ nextEtag = 0
    /\ nextExtent = 0
    /\ clock = 0
    /\ last = Response("none", None, None, BaseSnapshot, "OK", 200, <<>>)
    /\ served = 0
    /\ tasks = [t \in Tasks |-> IdleTask]

\* StorageError -> Response: a request that fails stores nothing.  A response
\* that left the store as it was (a failure, or a read) ends the behaviour
\* the model explores: what may follow it is what may follow the state before.
Serving == last.status < 300 /\ last.op \notin {"download_blob", "get_blob_properties"}

\* A successful response.
Reply(op, c, b, s, status) ==
    last' = Response(op, c, b, s, "OK", status, <<>>)

(***************************************************************************)
(* handlers/blob.rs: check_blob_lease                                      *)
(***************************************************************************)
check_blob_lease(blob, provided_lease_id) ==
    IF blob.lease_state = "Leased"
    THEN IF blob.lease_id # None /\ provided_lease_id # None
         THEN IF blob.lease_id = provided_lease_id
              THEN "OK"
              ELSE "LeaseIdMismatchWithBlobOperation"
         ELSE IF blob.lease_id # None THEN "LeaseIdMissing" ELSE "OK"
    ELSE "OK"

\* "if let Ok(existing) = get_blob(..) { check_blob_lease(&existing, ..)? }"
check_existing_lease(c, b, lease) ==
    LET r == get_blob(c, b, BaseSnapshot)
    IN IF r.err = "OK" THEN check_blob_lease(r.blob, lease) ELSE "OK"

(***************************************************************************)
(* handlers/container.rs                                                   *)
(***************************************************************************)
\* metadata.create_container: contains_key, then insert.
create_container_check(conts, c) ==
    IF c \in DOMAIN conts THEN "ContainerAlreadyExists" ELSE "OK"
create_container_insert(conts, c, model) == Put(conts, c, model)

\* PUT /{container}?restype=container, handled without interruption.
create_container(c) ==
    LET err == create_container_check(containers, c)
    IN IF err # "OK"
       THEN Reject("create_container", c, None, BaseSnapshot, err)
       ELSE /\ nextEtag' = nextEtag + 1
            /\ containers' = create_container_insert(containers, c,
                                 ContainerModel_new(nextEtag + 1))
            /\ Reply("create_container", c, None, BaseSnapshot, 201)
            /\ UNCHANGED <<blobs, blob_index, blocks, block_index, extents,
                           nextExtent, clock, tasks>>

\* check_container_lease
check_container_lease(container, provided_lease_id) ==
    IF container.lease_state = "Leased"
    THEN IF container.lease_id # None /\ provided_lease_id # None
         THEN IF container.lease_id = provided_lease_id
              THEN "OK"
              ELSE "LeaseIdMismatchWithContainerOperation"
         ELSE IF container.lease_id # None THEN "LeaseIdMissing" ELSE "OK"
    ELSE "OK"

\* DELETE /{container}?restype=container: the container entry alone is removed.
delete_container(c, lease) ==
    LET r == get_container(c)
        err == IF r.err # "OK" THEN r.err ELSE check_container_lease(r.container, lease)
    IN IF err # "OK"
       THEN Reject("delete_container", c, None, BaseSnapshot, err)
       ELSE /\ containers' = Remove(containers, c)
            /\ Reply("delete_container", c, None, BaseSnapshot, 202)
            /\ UNCHANGED <<blobs, blob_index, blocks, block_index, extents,
                           nextEtag, nextExtent, clock, tasks>>

(***************************************************************************)
(* xml/deserialize.rs: BlockListRequest::parse.  A request body is the     *)
(* sequence of its <Latest>/<Uncommitted>/<Committed> elements in document *)
(* order; the parser files each id under the bucket of its element.        *)
(***************************************************************************)
BlockListBodies == SeqsUpTo(BlockKinds \X BlockIds, MaxListLen)

RECURSIVE bucket(_, _)
bucket(body, kind) ==
    IF body = <<>> THEN <<>>
    ELSE IF Head(body)[1] = kind
         THEN <<Head(body)[2]>> \o bucket(Tail(body), kind)
         ELSE bucket(Tail(body), kind)

BlockListRequest_parse(body) ==
    [ committed |-> bucket(body, "Committed"),
      uncommitted |-> bucket(body, "Uncommitted"),
      latest |-> bucket(body, "Latest") ]

(***************************************************************************)
(* handlers/block_blob.rs                                                  *)
(***************************************************************************)
\* The blob upload_block_blob stores.
upload_block_blob_model(body, meta, etag, extent_id) ==
    [BlobModel_new("BlockBlob", Len(body), etag) EXCEPT
        !.extent_chunks = IF Len(body) > 0
                          THEN <<ExtentChunk(extent_id, 0, Len(body))>>
                          ELSE <<>>,
        !.metadata = meta]

\* PUT /{container}/{blob} (x-ms-blob-type: BlockBlob)
upload_block_blob(c, b, lease, body, meta) ==
    LET op == "upload_block_blob"
        err == IF ~container_exists(c) THEN "ContainerNotFound"
               ELSE check_existing_lease(c, b, lease)
        written == IF Len(body) > 0 THEN 1 ELSE 0
    IN IF err # "OK"
       THEN Reject(op, c, b, BaseSnapshot, err)
       ELSE /\ nextEtag' = nextEtag + 1
            /\ nextExtent' = nextExtent + written
            /\ extents' = IF written = 1
                          THEN extent_write(extents, nextExtent + 1, body)
                          ELSE extents
            /\ blob_index' = create_blob_index(blob_index, c, b)
            /\ blobs' = create_blob_blobs(blobs, c, b, BaseSnapshot,
                            upload_block_blob_model(body, meta, nextEtag + 1,
                                                    nextExtent + 1))
            /\ block_index' = delete_staged_blocks_index(block_index, c, b)
            /\ blocks' = delete_staged_blocks_blocks(blocks, block_index, c, b)
            /\ Reply(op, c, b, BaseSnapshot, 201)
            /\ UNCHANGED <<containers, clock, tasks>>

\* PUT /{container}/{blob}?comp=block&blockid=...
stage_block(c, b, lease, id, body) ==
    LET op == "stage_block"
        err == IF ~container_exists(c) THEN "ContainerNotFound"
               ELSE check_existing_lease(c, b, lease)
    IN IF err # "OK"
       THEN Reject(op, c, b, BaseSnapshot, err)
       ELSE /\ nextExtent' = nextExtent + 1
            /\ extents' = extent_write(extents, nextExtent + 1, body)
            /\ block_index' = stage_block_index(block_index, c, b, id)
            /\ blocks' = stage_block_blocks(blocks, c, b, id,
                             BlockModel_new(id, Len(body),
                                 ExtentChunk(nextExtent + 1, 0, Len(body))))
            /\ Reply(op, c, b, BaseSnapshot, 201)
            /\ UNCHANGED <<containers, blobs, blob_index, nextEtag, clock, tasks>>

\* The order in which commit_block_list walks the parsed list.
commit_order(block_list) ==
    block_list.latest \o block_list.uncommitted \o block_list.committed

\* A lookup that takes any staged block for the id asked for.
find_staged_any(staged, id) == staged

\* "staged_blocks.iter().find(|b| &b.block_id == block_id)"
find_staged(staged, id) == {blk \in staged : blk.block_id = id}

\* The blob commit_block_list stores: the existing blob, or a new block blob,
\* with the chunks of the ids in walking order.
commit_block_list_model(existing, ids, staged, meta, etag) ==
    LET found == [i \in 1..Len(ids) |-> CHOOSE blk \in find_staged(staged, ids[i]) : TRUE]
        base == IF existing.err = "OK" THEN existing.blob
                ELSE BlobModel_new("BlockBlob", 0, 0)
    IN [base EXCEPT
          !.content_length = SumSeq([i \in 1..Len(ids) |-> found[i].size]),
          !.extent_chunks = [i \in 1..Len(ids) |-> found[i].extent_chunk],
          !.etag = etag,
          !.metadata = IF meta # EmptyMeta THEN meta ELSE @]

\* PUT /{container}/{blob}?comp=blocklist
commit_block_list(c, b, lease, body, meta) ==
    LET op == "commit_block_list"
        existing == get_blob(c, b, BaseSnapshot)
        ids == commit_order(BlockListRequest_parse(body))
        staged == get_staged_blocks(c, b)
        err == IF ~container_exists(c) THEN "ContainerNotFound"
               ELSE IF check_existing_lease(c, b, lease) # "OK"
                    THEN check_existing_lease(c, b, lease)
               ELSE IF \E i \in 1..Len(ids) : find_staged(staged, ids[i]) = {}
                    THEN "InvalidBlockList"
               ELSE "OK"
    IN IF err # "OK"
       THEN Reject(op, c, b, BaseSnapshot, err)
       ELSE /\ nextEtag' = nextEtag + 1
            /\ blob_index' = create_blob_index(blob_index, c, b)
            /\ blobs' = create_blob_blobs(blobs, c, b, BaseSnapshot,
                            commit_block_list_model(existing, ids, staged, meta,
                                                    nextEtag + 1))
            /\ block_index' = delete_staged_blocks_index(block_index, c, b)
            /\ blocks' = delete_staged_blocks_blocks(blocks, block_index, c, b)
            /\ last' = Response(op, c, b, BaseSnapshot, "OK", 201, body)
            /\ UNCHANGED <<containers, extents, nextExtent, clock, tasks>>

(***************************************************************************)
(* handlers/blob.rs.  Requests carry no conditional headers and no Range   *)
(* header, so check_conditional_headers passes and a download is full.     *)
(***************************************************************************)
\* "for chunk in &blob.extent_chunks { extents.read(chunk)? }"
RECURSIVE read_chunks(_, _)
read_chunks(ext, chunks) ==
    IF chunks = <<>> THEN [err |-> "OK", data |-> <<>>]
    ELSE LET head == extent_read(ext, Head(chunks))
         IN IF head.err # "OK" THEN [err |-> head.err]
            ELSE LET rest == read_chunks(ext, Tail(chunks))
                 IN IF rest.err # "OK" THEN [err |-> rest.err]
                    ELSE [err |-> "OK", data |-> head.data \o rest.data]

\* The outcome of GET /{container}/{blob}[?snapshot=s] against a store.
download(conts, bl, ext, c, b, s) ==
    IF c \notin DOMAIN conts THEN [err |-> "ContainerNotFound"]
    ELSE IF <<c, b, s>> \notin DOMAIN bl THEN [err |-> "BlobNotFound"]
    ELSE read_chunks(ext, bl[<<c, b, s>>].extent_chunks)

\* The If-Match / If-None-Match headers of a request: an ETag, or AnyETag
\* for "*".  Requests carry no If-Modified-Since / If-Unmodified-Since.
AnyETag == 0
NoCond == [if_match |-> Nothing, if_none_match |-> Nothing]

check_conditional_headers(cond, blob) ==
    IF /\ cond.if_match # Nothing
       /\ cond.if_match[1] # AnyETag
       /\ cond.if_match[1] # blob.etag
    THEN "ConditionNotMet"
    ELSE IF /\ cond.if_none_match # Nothing
            /\ (cond.if_none_match[1] = AnyETag \/ cond.if_none_match[1] = blob.etag)
    THEN "ConditionNotMet"
    ELSE "OK"

\* A minimum that is always its first argument.
Min_left(a, b) == a
\* u64::min
Min(a, b) == IF a < b THEN a ELSE b
saturating_sub(a, b) == IF a > b THEN a - b ELSE 0

\* "for chunk in &blob.extent_chunks { ... }" of a range read: the bytes of
\* the chunks that overlap start .. start + length.
RECURSIVE read_range_chunks(_, _, _, _, _, _)
read_range_chunks(ext, chunks, current_pos, start, length, bytes_read) ==
    IF chunks = <<>> THEN [err |-> "OK", data |-> <<>>]
    ELSE LET chunk == Head(chunks)
             chunk_end == current_pos + chunk.count
             overlaps == current_pos < start + length /\ chunk_end > start
             chunk_start == IF current_pos < start THEN start - current_pos ELSE 0
             chunk_read_end == Min(chunk.count, start + length - current_pos)
             bytes_to_read == chunk_read_end - chunk_start
             got == IF overlaps
                    THEN extent_read_range(ext, chunk, chunk_start, bytes_to_read)
                    ELSE [err |-> "OK", data |-> <<>>]
             now_read == IF overlaps THEN bytes_read + bytes_to_read ELSE bytes_read
         IN IF got.err # "OK" THEN [err |-> got.err]
            ELSE IF now_read >= length THEN got
            ELSE LET rest == read_range_chunks(ext, Tail(chunks), chunk_end,
                                               start, length, now_read)
                 IN IF rest.err # "OK" THEN [err |-> rest.err]
                    ELSE [err |-> "OK", data |-> got.data \o rest.data]

\* "let (data, status, content_range) = if let Some((start, end)) = ctx.range()"
\* range is Nothing or Some of [start, end] with end an Option.
download_data(ext, blob, range) ==
    IF range # Nothing
    THEN LET start == range[1].start
             last_byte == saturating_sub(blob.content_length, 1)
             end == unwrap_or(range[1].end, last_byte)
             actual_end == Min(end, last_byte)
             length == actual_end - start + 1
             r == read_range_chunks(ext, blob.extent_chunks, 0, start, length, 0)
         IN IF start >= blob.content_length THEN [err |-> "InvalidRange"]
            ELSE IF r.err # "OK" THEN [err |-> r.err]
            ELSE [err |-> "OK", status |-> 206, data |-> r.data,
                  content_range |-> Some(<<start, actual_end, blob.content_length>>)]
    ELSE LET r == read_chunks(ext, blob.extent_chunks)
         IN IF r.err # "OK" THEN [err |-> r.err]
            ELSE [err |-> "OK", status |-> 200, data |-> r.data,
                  content_range |-> Nothing]

\* GET /{container}/{blob} with its Range and conditional headers.
download_blob_with(c, b, s, range, cond) ==
    LET op == "download_blob"
        r == get_blob(c, b, s)
        cerr == IF r.err # "OK" THEN r.err ELSE check_conditional_headers(cond, r.blob)
        d == download_data(extents, r.blob, range)
    IN IF cerr # "OK" THEN Reject(op, c, b, s, cerr)
       ELSE IF d.err # "OK" THEN Reject(op, c, b, s, d.err)
       ELSE /\ last' = [Response(op, c, b, s, "OK", d.status, <<>>) EXCEPT
                           !.data = d.data, !.content_range = d.content_range]
            /\ UNCHANGED <<containers, blobs, blob_index, blocks, block_index,
                           extents, nextEtag, nextExtent, clock, tasks>>

\* GET /{container}/{blob} without Range or conditional headers.
download_blob(c, b, s) == download_blob_with(c, b, s, Nothing, NoCond)

\* HEAD /{container}/{blob} with its conditional headers.
get_blob_properties_with(c, b, s, cond) ==
    LET r == get_blob(c, b, s)
        err == IF r.err # "OK" THEN r.err ELSE check_conditional_headers(cond, r.blob)
    IN IF err # "OK"
       THEN Reject("get_blob_properties", c, b, s, err)
       ELSE /\ Reply("get_blob_properties", c, b, s, 200)
            /\ UNCHANGED <<containers, blobs, blob_index, blocks, block_index,
                           extents, nextEtag, nextExtent, clock, tasks>>

\* HEAD /{container}/{blob} without conditional headers.
get_blob_properties(c, b, s) == get_blob_properties_with(c, b, s, NoCond)

\* get_blob(..)? ; check_blob_lease(..)?
get_and_check_lease(c, b, s, lease) ==
    LET r == get_blob(c, b, s)
    IN IF r.err # "OK" THEN r.err ELSE check_blob_lease(r.blob, lease)

\* get_blob(..)? ; check_blob_lease(..)? ; check_conditional_headers(..)?
get_and_check(c, b, s, lease, cond) ==
    LET r == get_blob(c, b, s)
        err == get_and_check_lease(c, b, s, lease)
    IN IF err # "OK" THEN err ELSE check_conditional_headers(cond, r.blob)

\* DELETE /{container}/{blob}: the entry, then every extent its chunks name.
delete_blob_extents(ext, blob) == extent_delete_all(ext, blob.extent_chunks)

delete_blob_with(c, b, s, lease, cond) ==
    LET err == get_and_check(c, b, s, lease, cond)
    IN IF err # "OK"
       THEN Reject("delete_blob", c, b, s, err)
       ELSE /\ blobs' = delete_blob_blobs(blobs, c, b, s)
            /\ blob_index' = delete_blob_index(blob_index, c, b, s)
            /\ extents' = delete_blob_extents(extents, blobs[<<c, b, s>>])
            /\ Reply("delete_blob", c, b, s, 202)
            /\ UNCHANGED <<containers, blocks, block_index, nextEtag,
                           nextExtent, clock, tasks>>

\* DELETE /{container}/{blob} without conditional headers.
delete_blob(c, b, s, lease) == delete_blob_with(c, b, s, lease, NoCond)

\* A handler that loads the base blob, checks its lease, changes the record
\* and stores it with update_blob.
update_base_blob(op, c, b, err, new_blob, status) ==
    IF err # "OK"
    THEN Reject(op, c, b, BaseSnapshot, err)
    ELSE /\ blobs' = update_blob_blobs(blobs, c, b, BaseSnapshot, new_blob)
         /\ Reply(op, c, b, BaseSnapshot, status)
         /\ UNCHANGED <<containers, blob_index, blocks, block_index, extents,
                        nextExtent, clock, tasks>>

\* PUT /{container}/{blob}?comp=properties
set_blob_properties_model(blob, ct, etag) ==
    update_etag([blob EXCEPT !.content_type = ct], etag)

set_blob_properties(c, b, lease, ct) ==
    LET err == get_and_check_lease(c, b, BaseSnapshot, lease)
    IN /\ nextEtag' = IF err = "OK" THEN nextEtag + 1 ELSE nextEtag
       /\ update_base_blob("set_blob_properties", c, b, err,
              set_blob_properties_model(blobs[<<c, b, BaseSnapshot>>], ct, nextEtag + 1),
              200)

\* PUT /{container}/{blob}?comp=metadata
set_blob_metadata_model(blob, meta, etag) ==
    update_etag([blob EXCEPT !.metadata = meta], etag)

set_blob_metadata_with(c, b, lease, meta, cond) ==
    LET err == get_and_check(c, b, BaseSnapshot, lease, cond)
    IN /\ nextEtag' = IF err = "OK" THEN nextEtag + 1 ELSE nextEtag
       /\ update_base_blob("set_blob_metadata", c, b, err,
              set_blob_metadata_model(blobs[<<c, b, BaseSnapshot>>], meta, nextEtag + 1),
              200)

\* PUT /{container}/{blob}?comp=metadata without conditional headers.
set_blob_metadata(c, b, lease, meta) == set_blob_metadata_with(c, b, lease, meta, NoCond)

\* PUT /{container}/{blob}?comp=lease.  An acquire without a proposed id
\* draws a UUID, which is one more id: the requests here always propose one.
LeaseDurations == {-1, 15}
BreakPeriods == {0, 10}
LeaseRequestsWith(durations) ==
    [action : {"acquire"}, lease : {None}, proposed : LeaseIds,
     duration : durations, break_period : {0}]
    \cup [action : {"release", "renew"}, lease : LeaseHeaders, proposed : {None},
          duration : {-1}, break_period : {0}]
    \cup [action : {"break"}, lease : {None}, proposed : {None},
          duration : {-1}, break_period : BreakPeriods]
    \cup [action : {"change"}, lease : LeaseHeaders, proposed : LeaseHeaders,
          duration : {-1}, break_period : {0}]

LeaseRequests == LeaseRequestsWith(LeaseDurations)

\* The error of the lease action against the blob, or OK.
blob_lease_check(blob, req) ==
    CASE req.action = "acquire" ->
            IF blob.lease_state = "Leased" THEN "LeaseAlreadyPresent" ELSE "OK"
      [] req.action = "release" ->
            IF req.lease = None THEN "LeaseIdMissing"
            ELSE IF blob.lease_id # req.lease THEN "LeaseIdMismatchWithBlobOperation"
            ELSE "OK"
      [] req.action = "renew" ->
            IF req.lease = None THEN "LeaseIdMissing"
            ELSE IF blob.lease_id # req.lease THEN "LeaseIdMismatchWithBlobOperation"
            ELSE IF blob.lease_state # "Leased" THEN "LeaseIsBrokenAndCannotBeRenewed"
            ELSE "OK"
      [] req.action = "break" ->
            IF blob.lease_state = "Available" THEN "LeaseNotPresentWithBlobOperation"
            ELSE "OK"
      [] req.action = "change" ->
            IF req.lease = None THEN "LeaseIdMissing"
            ELSE IF blob.lease_id # req.lease THEN "LeaseIdMismatchWithBlobOperation"
            ELSE IF req.proposed = None THEN "MissingRequiredHeader"
            ELSE "OK"
      [] OTHER -> "InvalidHeaderValue"

\* A lease action whose break leaves the lease as it was.
blob_lease_model_unbroken(blob, req, now) ==
    IF req.action = "acquire"
    THEN [blob EXCEPT !.lease_state = "Leased",
                      !.lease_status = "Locked",
                      !.lease_id = req.proposed,
                      !.lease_duration = IF req.duration = -1 THEN "Infinite" ELSE "Fixed",
                      !.lease_expiry = IF req.duration = -1 THEN @ ELSE Some(now + req.duration)]
    ELSE blob

\* The blob the lease action leaves, before update_etag.
blob_lease_model(blob, req, now) ==
    CASE req.action = "acquire" ->
            [blob EXCEPT !.lease_state = "Leased",
                         !.lease_status = "Locked",
                         !.lease_id = req.proposed,
                         !.lease_duration = IF req.duration = -1 THEN "Infinite" ELSE "Fixed",
                         !.lease_expiry = IF req.duration = -1 THEN @ ELSE Some(now + req.duration)]
      [] req.action = "release" ->
            [blob EXCEPT !.lease_state = "Available",
                         !.lease_status = "Unlocked",
                         !.lease_id = None,
                         !.lease_duration = None,
                         !.lease_expiry = Nothing]
      [] req.action = "renew" ->
            [blob EXCEPT !.lease_expiry = IF blob.lease_duration = "Fixed" THEN Some(now + 60) ELSE @]
      [] req.action = "break" ->
            IF req.break_period = 0
            THEN [blob EXCEPT !.lease_state = "Broken",
                              !.lease_status = "Unlocked",
                              !.lease_id = None]
            ELSE [blob EXCEPT !.lease_state = "Breaking",
                              !.lease_break_time = Some(now + req.break_period)]
      [] req.action = "change" ->
            [blob EXCEPT !.lease_id = req.proposed]

\* The x-ms-lease-time header of the response: a break answers 0 or the
\* break period.
lease_time(req) ==
    IF req.action = "break" THEN Some(req.break_period) ELSE Nothing

blob_lease(c, b, req) ==
    LET r == get_blob(c, b, BaseSnapshot)
        err == IF r.err # "OK" THEN r.err ELSE blob_lease_check(r.blob, req)
    IN IF err # "OK"
       THEN Reject("blob_lease", c, b, BaseSnapshot, err)
       ELSE /\ nextEtag' = nextEtag + 1
            /\ blobs' = update_blob_blobs(blobs, c, b, BaseSnapshot,
                            update_etag(blob_lease_model(r.blob, req, clock), nextEtag + 1))
            /\ last' = [Response("blob_lease", c, b, BaseSnapshot, "OK", 200, <<>>)
                           EXCEPT !.lease_time = lease_time(req)]
            /\ UNCHANGED <<containers, blob_index, blocks, block_index, extents,
                           nextExtent, clock, tasks>>

\* PUT /{container}/{blob}?comp=tier
set_blob_tier_model(blob, tier, etag) ==
    update_etag([blob EXCEPT !.access_tier = tier], etag)

set_blob_tier(c, b, lease, tier) ==
    LET r == get_blob(c, b, BaseSnapshot)
    IN /\ nextEtag' = IF r.err = "OK" THEN nextEtag + 1 ELSE nextEtag
       /\ update_base_blob("set_blob_tier", c, b, r.err,
              set_blob_tier_model(r.blob, tier, nextEtag + 1), 200)

\* PUT /{container}/{blob}?comp=tags
set_blob_tags_model(blob, tags) == [blob EXCEPT !.tags = tags]

set_blob_tags(c, b, lease, tags) ==
    LET err == get_and_check_lease(c, b, BaseSnapshot, lease)
    IN /\ UNCHANGED nextEtag
       /\ update_base_blob("set_blob_tags", c, b, err,
              set_blob_tags_model(blobs[<<c, b, BaseSnapshot>>], tags), 204)

\* BlobModel::create_snapshot: a clone under the timestamp; the ETag is kept.
create_snapshot_model(blob, meta) ==
    [blob EXCEPT !.metadata = IF meta # EmptyMeta THEN meta ELSE @]

\* PUT /{container}/{blob}?comp=snapshot.  Utc::now() is taken to be later
\* than the time of any earlier request.
create_snapshot(c, b, lease, meta) ==
    LET op == "create_snapshot"
        err == get_and_check_lease(c, b, BaseSnapshot, lease)
    IN IF err # "OK"
       THEN Reject(op, c, b, BaseSnapshot, err)
       ELSE /\ clock < MaxSnap
            /\ clock' = clock + 1
            /\ blob_index' = create_blob_index(blob_index, c, b)
            /\ blobs' = create_blob_blobs(blobs, c, b, clock + 1,
                            create_snapshot_model(blobs[<<c, b, BaseSnapshot>>], meta))
            /\ Reply(op, c, b, BaseSnapshot, 201)
            /\ UNCHANGED <<containers, blocks, block_index, extents,
                           nextEtag, nextExtent, tasks>>

\* The destination blob of copy_blob: a new blob of the source's type and
\* length that names the source's extents.
copy_blob_model(source, meta, etag) ==
    [BlobModel_new(source.blob_type, source.content_length, etag) EXCEPT
        !.content_type = source.content_type,
        !.extent_chunks = source.extent_chunks,
        !.copy_status = Some("success"),
        !.metadata = IF meta = EmptyMeta THEN source.metadata ELSE meta]

\* PUT /{container}/{blob} with x-ms-copy-source: /{sc}/{sb}[?snapshot=ss]
copy_blob(c, b, lease, sc, sb, ss, meta) ==
    LET op == "copy_blob"
        src == get_blob(sc, sb, ss)
    IN IF src.err # "OK"
       THEN Reject(op, c, b, BaseSnapshot, src.err)
       ELSE /\ nextEtag' = nextEtag + 1
            /\ blob_index' = create_blob_index(blob_index, c, b)
            /\ blobs' = create_blob_blobs(blobs, c, b, BaseSnapshot,
                            copy_blob_model(src.blob, meta, nextEtag + 1))
            /\ Reply(op, c, b, BaseSnapshot, 202)
            /\ UNCHANGED <<containers, blocks, block_index, extents,
                           nextExtent, clock, tasks>>

(***************************************************************************)
(* handlers/append_blob.rs                                                 *)
(***************************************************************************)
MAX_APPEND_BLOCK_COUNT == 50000

\* PUT /{container}/{blob} (x-ms-blob-type: AppendBlob)
create_append_blob(c, b, lease, meta) ==
    LET op == "create_append_blob"
        err == IF ~container_exists(c) THEN "ContainerNotFound"
               ELSE check_existing_lease(c, b, lease)
    IN IF err # "OK"
       THEN Reject(op, c, b, BaseSnapshot, err)
       ELSE /\ nextEtag' = nextEtag + 1
            /\ blob_index' = create_blob_index(blob_index, c, b)
            /\ blobs' = create_blob_blobs(blobs, c, b, BaseSnapshot,
                            [BlobModel_new("AppendBlob", 0, nextEtag + 1)
                                EXCEPT !.metadata = meta])
            /\ Reply(op, c, b, BaseSnapshot, 201)
            /\ UNCHANGED <<containers, blocks, block_index, extents,
                           nextExtent, clock, tasks>>

append_block_check(c, b, lease) ==
    LET r == get_blob(c, b, BaseSnapshot)
    IN IF r.err # "OK" THEN r.err
       ELSE IF r.blob.blob_type # "AppendBlob" THEN "InvalidBlobType"
       ELSE IF r.blob.is_sealed = Some(TRUE) THEN "InvalidOperation"
       ELSE IF check_blob_lease(r.blob, lease) # "OK" THEN check_blob_lease(r.blob, lease)
       ELSE IF unwrap_or(r.blob.committed_block_count, 0) >= MAX_APPEND_BLOCK_COUNT
            THEN "BlockCountExceedsLimit"
       ELSE "OK"

\* An append that keeps the length the blob had.
append_block_model_stale(blob, chunk, block_size, etag) ==
    update_etag(
        [blob EXCEPT
            !.extent_chunks = Append(@, chunk),
            !.committed_block_count = Some(unwrap_or(blob.committed_block_count, 0) + 1)],
        etag)

\* The blob append_block stores.
append_block_model(blob, chunk, block_size, etag) ==
    update_etag(
        [blob EXCEPT
            !.extent_chunks = Append(@, chunk),
            !.content_length = @ + block_size,
            !.committed_block_count = Some(unwrap_or(blob.committed_block_count, 0) + 1)],
        etag)

\* PUT /{container}/{blob}?comp=appendblock
append_block(c, b, lease, body) ==
    LET op == "append_block"
        err == append_block_check(c, b, lease)
    IN IF err # "OK"
       THEN Reject(op, c, b, BaseSnapshot, err)
       ELSE /\ nextEtag' = nextEtag + 1
            /\ nextExtent' = nextExtent + 1
            /\ extents' = extent_write(extents, nextExtent + 1, body)
            /\ blobs' = update_blob_blobs(blobs, c, b, BaseSnapshot,
                            append_block_model(blobs[<<c, b, BaseSnapshot>>],
                                ExtentChunk(nextExtent + 1, 0, Len(body)),
                                Len(body), nextEtag + 1))
            /\ Reply(op, c, b, BaseSnapshot, 201)
            /\ UNCHANGED <<containers, blob_index, blocks, block_index, clock, tasks>>

seal_append_blob_check(c, b, lease) ==
    LET r == get_blob(c, b, BaseSnapshot)
    IN IF r.err # "OK" THEN r.err
       ELSE IF r.blob.blob_type # "AppendBlob" THEN "InvalidBlobType"
       ELSE IF r.blob.is_sealed = Some(TRUE) THEN "InvalidOperation"
       ELSE check_blob_lease(r.blob, lease)

\* PUT /{container}/{blob}?comp=seal
seal_append_blob(c, b, lease) ==
    LET err == seal_append_blob_check(c, b, lease)
    IN /\ nextEtag' = IF err = "OK" THEN nextEtag + 1 ELSE nextEtag
       /\ update_base_blob("seal_append_blob", c, b, err,
              update_etag([blobs[<<c, b, BaseSnapshot>>] EXCEPT !.is_sealed = Some(TRUE)],
                          nextEtag + 1), 200)

(***************************************************************************)
(* handlers/page_blob.rs.  Requests carry no sequence-number conditions.   *)
(***************************************************************************)
\* PUT /{container}/{blob} (x-ms-blob-type: PageBlob)
create_page_blob(c, b, lease, content_length) ==
    LET op == "create_page_blob"
        err == IF ~container_exists(c) THEN "ContainerNotFound"
               ELSE IF content_length % PAGE_SIZE # 0 THEN "InvalidHeaderValue"
               ELSE check_existing_lease(c, b, lease)
    IN IF err # "OK"
       THEN Reject(op, c, b, BaseSnapshot, err)
       ELSE /\ nextEtag' = nextEtag + 1
            /\ blob_index' = create_blob_index(blob_index, c, b)
            /\ blobs' = create_blob_blobs(blobs, c, b, BaseSnapshot,
                            BlobModel_new("PageBlob", content_length, nextEtag + 1))
            /\ Reply(op, c, b, BaseSnapshot, 201)
            /\ UNCHANGED <<containers, blocks, block_index, extents,
                           nextExtent, clock, tasks>>

\* The checks upload_pages and clear_pages share; upload_pages also holds
\* the range within the blob.
page_range_check(c, b, lease, range, within) ==
    LET r == get_blob(c, b, BaseSnapshot)
    IN IF r.err # "OK" THEN r.err
       ELSE IF r.blob.blob_type # "PageBlob" THEN "InvalidBlobType"
       ELSE IF check_blob_lease(r.blob, lease) # "OK" THEN check_blob_lease(r.blob, lease)
       ELSE IF range[1] % PAGE_SIZE # 0 \/ (range[2] + 1) % PAGE_SIZE # 0
            THEN "InvalidPageRange"
       ELSE IF within /\ range[2] >= r.blob.content_length THEN "InvalidPageRange"
       ELSE "OK"

\* PUT /{container}/{blob}?comp=page (x-ms-page-write: update): the body
\* becomes one more extent chunk of the blob.
upload_pages(c, b, lease, range, body) ==
    LET op == "upload_pages"
        err == page_range_check(c, b, lease, range, TRUE)
    IN IF err # "OK"
       THEN Reject(op, c, b, BaseSnapshot, err)
       ELSE /\ nextEtag' = nextEtag + 1
            /\ nextExtent' = nextExtent + 1
            /\ extents' = extent_write(extents, nextExtent + 1, body)
            /\ blobs' = update_blob_blobs(blobs, c, b, BaseSnapshot,
                            update_etag(
                                [blobs[<<c, b, BaseSnapshot>>] EXCEPT
                                    !.extent_chunks =
                                        Append(@, ExtentChunk(nextExtent + 1, 0, Len(body)))],
                                nextEtag + 1))
            /\ Reply(op, c, b, BaseSnapshot, 201)
            /\ UNCHANGED <<containers, blob_index, blocks, block_index, clock, tasks>>

\* PUT /{container}/{blob}?comp=page (x-ms-page-write: clear)
clear_pages(c, b, lease, range) ==
    LET err == page_range_check(c, b, lease, range, FALSE)
    IN /\ nextEtag' = IF err = "OK" THEN nextEtag + 1 ELSE nextEtag
       /\ update_base_blob("clear_pages", c, b, err,
              update_etag(blobs[<<c, b, BaseSnapshot>>], nextEtag + 1), 201)

resize_page_blob_check(c, b, lease, new_size) ==
    LET r == get_blob(c, b, BaseSnapshot)
    IN IF new_size % PAGE_SIZE # 0 THEN "InvalidHeaderValue"
       ELSE IF r.err # "OK" THEN r.err
       ELSE IF r.blob.blob_type # "PageBlob" THEN "InvalidBlobType"
       ELSE check_blob_lease(r.blob, lease)

\* PUT /{container}/{blob}?comp=properties with x-ms-blob-content-length
resize_page_blob(c, b, lease, new_size) ==
    LET err == resize_page_blob_check(c, b, lease, new_size)
    IN /\ nextEtag' = IF err = "OK" THEN nextEtag + 1 ELSE nextEtag
       /\ update_base_blob("resize_page_blob", c, b, err,
              update_etag([blobs[<<c, b, BaseSnapshot>>] EXCEPT !.content_length = new_size],
                          nextEtag + 1), 200)

(***************************************************************************)
(* The server handling one request at a time.                              *)
(***************************************************************************)
Snapshots == 0..MaxSnap

\* A request is accepted while the previous response left a new store and
\* fewer than MaxRequests requests were served.
Accept ==
    /\ Serving
    /\ served < MaxRequests
    /\ served' = served + 1

Next ==
    \/ \E c \in Containers : Accept /\ create_container(c)
    \/ \E c \in Containers, l \in LeaseHeaders : Accept /\ delete_container(c, l)
    \/ \E c \in Containers, b \in BlobNames, l \in LeaseHeaders,
          body \in Bodies, m \in Metas : Accept /\ upload_block_blob(c, b, l, body, m)
    \/ \E c \in Containers, b \in BlobNames, l \in LeaseHeaders,
          id \in BlockIds, body \in Bodies : Accept /\ stage_block(c, b, l, id, body)
    \/ \E c \in Containers, b \in BlobNames, l \in LeaseHeaders,
          body \in BlockListBodies, m \in Metas : Accept /\ commit_block_list(c, b, l, body, m)
    \/ \E c \in Containers, b \in BlobNames, s \in Snapshots : Accept /\ download_blob(c, b, s)
    \/ \E c \in Containers, b \in BlobNames, s \in Snapshots : Accept /\ get_blob_properties(c, b, s)
    \/ \E c \in Containers, b \in BlobNames, s \in Snapshots,
          l \in LeaseHeaders : Accept /\ delete_blob(c, b, s, l)
    \/ \E c \in Containers, b \in BlobNames, l \in LeaseHeaders,
          ct \in ContentTypes : Accept /\ set_blob_properties(c, b, l, ct)
    \/ \E c \in Containers, b \in BlobNames, l \in LeaseHeaders,
          m \in Metas : Accept /\ set_blob_metadata(c, b, l, m)
    \/ \E c \in Containers, b \in BlobNames, req \in LeaseRequests : Accept /\ blob_lease(c, b, req)
    \/ \E c \in Containers, b \in BlobNames, l \in LeaseHeaders,
          t \in Tiers : Accept /\ set_blob_tier(c, b, l, t)
    \/ \E c \in Containers, b \in BlobNames, l \in LeaseHeaders,
          t \in TagSets : Accept /\ set_blob_tags(c, b, l, t)
    \/ \E c \in Containers, b \in BlobNames, l \in LeaseHeaders,
          m \in Metas : Accept /\ create_snapshot(c, b, l, m)
    \/ \E c \in Containers, b \in BlobNames, l \in LeaseHeaders,
          sc \in Containers, sb \in BlobNames, ss \in Snapshots,
          m \in Metas : Accept /\ copy_blob(c, b, l, sc, sb, ss, m)
    \/ \E c \in Containers, b \in BlobNames, l \in LeaseHeaders,
          m \in Metas : Accept /\ create_append_blob(c, b, l, m)
    \/ \E c \in Containers, b \in BlobNames, l \in LeaseHeaders,
          body \in Bodies : Accept /\ append_block(c, b, l, body)
    \/ \E c \in Containers, b \in BlobNames, l \in LeaseHeaders : Accept /\ seal_append_blob(c, b, l)
    \/ \E c \in Containers, b \in BlobNames, l \in LeaseHeaders,
          n \in PageLengths : Accept /\ create_page_blob(c, b, l, n)
    \/ \E c \in Containers, b \in BlobNames, l \in LeaseHeaders,
          r \in PageRanges, body \in Bodies : Accept /\ upload_pages(c, b, l, r, body)
    \/ \E c \in Containers, b \in BlobNames, l \in LeaseHeaders,
          r \in PageRanges : Accept /\ clear_pages(c, b, l, r)
    \/ \E c \in Containers, b \in BlobNames, l \in LeaseHeaders,
          n \in PageLengths : Accept /\ resize_page_blob(c, b, l, n)

Spec == Init /\ [][Next]_vars

(***************************************************************************)
(* Create-container requests served concurrently.  axum runs each          *)
(* connection as a task of the multi-threaded runtime, so the two DashMap  *)
(* calls of MemoryMetadataStore::create_container (contains_key, insert)   *)
(* of one request interleave with those of another.                        *)
(***************************************************************************)
\* handlers::create_container up to the store call: the model is built.
create_container_begin(t, c) ==
    /\ tasks[t].pc = "idle"
    /\ nextEtag' = nextEtag + 1
    /\ tasks' = [tasks EXCEPT ![t] = [pc |-> "contains_key", name |-> c,
                                      etag |-> nextEtag + 1, code |-> None,
                                      status |-> 0]]
    /\ UNCHANGED <<containers, blobs, blob_index, blocks, block_index, extents,
                   nextExtent, clock, last, served>>

\* "if self.containers.contains_key(&key) { return Err(ContainerAlreadyExists) }"
create_container_contains_key(t) ==
    /\ tasks[t].pc = "contains_key"
    /\ LET err == create_container_check(containers, tasks[t].name)
       IN tasks' = [tasks EXCEPT ![t] =
                       IF err # "OK"
                       THEN [@ EXCEPT !.pc = "done", !.code = err,
                                      !.status = status_code(err)]
                       ELSE [@ EXCEPT !.pc = "insert"]]
    /\ UNCHANGED <<containers, blobs, blob_index, blocks, block_index, extents,
                   nextEtag, nextExtent, clock, last, served>>

\* "self.containers.insert(key, container); Ok(())", answered with 201.
create_container_store(t) ==
    /\ tasks[t].pc = "insert"
    /\ containers' = create_container_insert(containers, tasks[t].name,
                         ContainerModel_new(tasks[t].etag))
    /\ tasks' = [tasks EXCEPT ![t] = [@ EXCEPT !.pc = "done", !.code = "OK",
                                                !.status = 201]]
    /\ UNCHANGED <<blobs, blob_index, blocks, block_index, extents,
                   nextEtag, nextExtent, clock, last, served>>

NextCreate ==
    \/ \E t \in Tasks, c \in Containers : create_container_begin(t, c)
    \/ \E t \in Tasks : create_container_contains_key(t)
    \/ \E t \in Tasks : create_container_store(t)

SpecCreate == Init /\ [][NextCreate]_vars

(***************************************************************************)
(* Properties.  A property about a request is stated over the step the     *)
(* request takes: the handler's action relates the state before, the state *)
(* after and the response, for every value of the request's headers and    *)
(* body.                                                                   *)
(***************************************************************************)
IsLeased(c, b) ==
    /\ get_blob(c, b, BaseSnapshot).err = "OK"
    /\ blobs[<<c, b, BaseSnapshot>>].lease_state = "Leased"

\* The write and delete requests on the base blob (c, b) that carry lease
\* header l and are otherwise valid for the blob.
WriteRequest(c, b, l) ==
    LET blob == blobs[<<c, b, BaseSnapshot>>]
    IN \/ \E body \in Bodies, m \in Metas : upload_block_blob(c, b, l, body, m)
       \/ \E id \in BlockIds, body \in Bodies : stage_block(c, b, l, id, body)
       \/ \E body \in BlockListBodies, m \in Metas : commit_block_list(c, b, l, body, m)
       \/ /\ blob.blob_type = "AppendBlob"
          /\ blob.is_sealed # Some(TRUE)
          /\ \/ \E body \in Bodies : append_block(c, b, l, body)
             \/ seal_append_blob(c, b, l)
       \/ /\ blob.blob_type = "PageBlob"
          /\ \/ \E r \in PageRanges, body \in Bodies : upload_pages(c, b, l, r, body)
             \/ \E r \in PageRanges : clear_pages(c, b, l, r)
             \/ \E n \in PageLengths : n % PAGE_SIZE = 0 /\ resize_page_blob(c, b, l, n)
       \/ \E ct \in ContentTypes : set_blob_properties(c, b, l, ct)
       \/ \E m \in Metas : set_blob_metadata(c, b, l, m)
       \/ \E t \in Tiers : set_blob_tier(c, b, l, t)
       \/ \E t \in TagSets : set_blob_tags(c, b, l, t)
       \/ \E sc \in Containers, sb \in BlobNames, ss \in Snapshots, m \in Metas :
             get_blob(sc, sb, ss).err = "OK" /\ copy_blob(c, b, l, sc, sb, ss, m)
       \/ delete_blob(c, b, BaseSnapshot, l)

\* C1: while a blob is Leased, a write or delete request on it without a
\* lease id fails with LeaseIdMissing (412), one with another lease id fails
\* with LeaseIdMismatchWithBlobOperation (409), and the stores are left as
\* they were.
C1_LeaseEnforced ==
    [][\A c \in Containers, b \in BlobNames, l \in LeaseHeaders :
          (/\ IsLeased(c, b)
           /\ l # blobs[<<c, b, BaseSnapshot>>].lease_id
           /\ WriteRequest(c, b, l))
          => /\ last'.code = IF l = None THEN "LeaseIdMissing"
                              ELSE "LeaseIdMismatchWithBlobOperation"
             /\ last'.status = IF l = None THEN 412 ELSE 409
             /\ UNCHANGED storeVars]_vars

\* C2: of the create-container requests for one name that were answered, at
\* most one was answered 201 Created, and once all of them were answered
\* exactly one was (no delete-container runs beside them).
C2_OneCreateSucceeds ==
    \A c \in Containers :
        LET asked == {t \in Tasks : tasks[t].pc # "idle" /\ tasks[t].name = c}
            created == {t \in asked : tasks[t].pc = "done" /\ tasks[t].status = 201}
        IN /\ Cardinality(created) <= 1
           /\ (asked # {} /\ \A t \in asked : tasks[t].pc = "done")
                 => Cardinality(created) = 1

\* The ids of a block list body, in the order of the request.
request_ids(body) == [i \in 1..Len(body) |-> body[i][2]]

\* The ids staged for blob (c, b), and the body staged under one of them.
staged_ids(c, b) == {blk.block_id : blk \in get_staged_blocks(c, b)}
staged_body(c, b, id) == extent_read(extents, blocks[<<c, b, id>>].extent_chunk).data

\* C3: after a commit-block-list that succeeded, the blob's content_length is
\* the sum of the sizes of the listed blocks and a full download returns the
\* staged bodies concatenated in the order of the request.
C3_CommitInRequestOrder ==
    [][(last'.op = "commit_block_list" /\ last'.status = 201)
          => LET c == last'.c
                 b == last'.b
                 ids == request_ids(last'.committed)
                 X == [i \in 1..Len(ids) |-> staged_body(c, b, ids[i])]
                 got == download(containers', blobs', extents', c, b, BaseSnapshot)
             IN /\ blobs'[<<c, b, BaseSnapshot>>].content_length
                      = SumSeq([i \in 1..Len(ids) |-> Len(X[i])])
                /\ got.err = "OK"
                /\ got.data = Flatten(X)]_vars

\* C4: a commit-block-list that follows a successful commit of the same blob
\* and lists only ids that commit committed (none being staged any longer)
\* succeeds, and when it lists exactly what that commit listed the content
\* of the blob stays what it was.
C4_CommittedIdsResolve ==
    [][(/\ last.op = "commit_block_list" /\ last.status = 201
        /\ last'.op = "commit_block_list"
        /\ last'.c = last.c /\ last'.b = last.b)
          => \A l \in LeaseHeaders, body \in BlockListBodies, m \in Metas :
                (/\ commit_block_list(last.c, last.b, l, body, m)
                 /\ check_existing_lease(last.c, last.b, l) = "OK"
                 /\ body # <<>>
                 /\ \A i \in 1..Len(body) :
                       \E j \in 1..Len(last.committed) :
                           body[i][2] = last.committed[j][2])
                => /\ last'.status = 201
                   /\ body = last.committed
                        => download(containers', blobs', extents',
                                    last.c, last.b, BaseSnapshot)
                           = download(containers, blobs, extents,
                                      last.c, last.b, BaseSnapshot)]_vars

\* C5: a commit-block-list that names an id not staged for the blob does not
\* succeed; rejected, it leaves the stores (the blob, its properties and
\* ETag, its staged blocks) as they were, and the error is InvalidBlockList
\* (400) whenever the container exists and the lease check passes.
C5_UnknownBlockRejected ==
    [][last'.op = "commit_block_list"
          => /\ last'.status = 201
                  => \A i \in 1..Len(last'.committed) :
                        last'.committed[i][2] \in staged_ids(last'.c, last'.b)
             /\ last'.status # 201
                  => (last'.status >= 400 /\ UNCHANGED storeVars)
             /\ (last'.status # 201 /\ last'.code # "InvalidBlockList")
                  => ~ \E l \in LeaseHeaders :
                         /\ container_exists(last'.c)
                         /\ check_existing_lease(last'.c, last'.b, l) = "OK"
                         /\ \E body \in BlockListBodies, m \in Metas :
                               /\ \E i \in 1..Len(body) :
                                     body[i][2] \notin staged_ids(last'.c, last'.b)
                               /\ commit_block_list(last'.c, last'.b, l, body, m)
             /\ last'.code = "InvalidBlockList" => last'.status = 400]_vars

\* A commit was rejected for an unknown id while the blob existed with
\* content and had a block staged.
C5_Witness ==
    /\ last.op = "commit_block_list"
    /\ last.code = "InvalidBlockList"
    /\ <<last.c, last.b, BaseSnapshot>> \in DOMAIN blobs
    /\ blobs[<<last.c, last.b, BaseSnapshot>>].content_length > 0
    /\ staged_ids(last.c, last.b) # {}

\* C6: a request that fetches or creates a blob in a container that does not
\* exist (a copy with it as destination and an existing source included)
\* fails with ContainerNotFound (404) and creates no blob and no staged block.
C6_MissingContainerRejected ==
    [][(/\ ~container_exists(last'.c)
        /\ \/ last'.op \in {"download_blob", "get_blob_properties",
                             "upload_block_blob", "stage_block",
                             "commit_block_list", "create_append_blob",
                             "create_page_blob"}
           \/ /\ last'.op = "copy_blob"
              /\ \E l \in LeaseHeaders, sc \in Containers, sb \in BlobNames,
                    ss \in Snapshots, m \in Metas :
                    /\ get_blob(sc, sb, ss).err = "OK"
                    /\ copy_blob(last'.c, last'.b, l, sc, sb, ss, m))
          => /\ last'.code = "ContainerNotFound"
             /\ last'.status = 404
             /\ UNCHANGED <<blobs, blob_index, blocks, block_index>>]_vars

\* C7: every extent chunk of every blob and snapshot that exists (its
\* container does) is present in the extent store: its download succeeds.
C7_ChunksPresent ==
    \A k \in DOMAIN blobs :
        container_exists(k[1])
          => /\ \A i \in 1..Len(blobs[k].extent_chunks) :
                   blobs[k].extent_chunks[i].id \in DOMAIN extents
             /\ download(containers, blobs, extents, k[1], k[2], k[3]).err = "OK"

\* C8: while a snapshot exists, no request changes what get-properties and
\* download return for it.
C8_SnapshotImmutable ==
    [][\A k \in DOMAIN blobs :
          (/\ k[3] # BaseSnapshot
           /\ k \in DOMAIN blobs'
           /\ container_exists(k[1])
           /\ k[1] \in DOMAIN containers')
          => LET before == download(containers, blobs, extents, k[1], k[2], k[3])
                 after == download(containers', blobs', extents', k[1], k[2], k[3])
             IN /\ blobs'[k] = blobs[k]
                /\ after.err = before.err
                /\ before.err = "OK" => after.data = before.data]_vars

\* The sum of count over a chunk list.
chunks_size(chunks) == SumSeq([i \in 1..Len(chunks) |-> chunks[i].count])

\* C9: the content_length of every block blob and of every append blob is
\* the sum of count over its extent chunks (for an append blob: the sizes of
\* the blocks appended to it).
C9_LengthIsChunkSum ==
    \A k \in DOMAIN blobs :
        blobs[k].blob_type \in {"BlockBlob", "AppendBlob"}
          => blobs[k].content_length = chunks_size(blobs[k].extent_chunks)

\* A commit or an append has just left a blob of two chunks and three bytes.
C9_Witness ==
    /\ last.op \in {"commit_block_list", "append_block"}
    /\ last.status = 201
    /\ LET blob == blobs[<<last.c, last.b, BaseSnapshot>>]
       IN /\ blob.blob_type \in {"BlockBlob", "AppendBlob"}
          /\ Len(blob.extent_chunks) = 2
          /\ blob.content_length = 3

\* The requests that change an existing base blob.
MutatingOps ==
    {"set_blob_properties", "set_blob_metadata", "set_blob_tier", "set_blob_tags",
     "blob_lease", "append_block", "seal_append_blob", "upload_pages",
     "clear_pages", "resize_page_blob", "commit_block_list",
     "upload_block_blob", "create_append_blob", "create_page_blob", "copy_blob"}

\* C10: a mutating request that succeeds on an existing blob leaves it with
\* an ETag other than the one it had.
C10_MutationChangesETag ==
    [][(/\ last'.op \in MutatingOps
        /\ last'.status < 300
        /\ container_exists(last'.c)
        /\ <<last'.c, last'.b, BaseSnapshot>> \in DOMAIN blobs)
          => blobs'[<<last'.c, last'.b, BaseSnapshot>>].etag
               # blobs[<<last'.c, last'.b, BaseSnapshot>>].etag]_vars

(***************************************************************************)
(* MemoryMetadataStore called concurrently.  Each method is a sequence of  *)
(* DashMap calls; a DashMap call is atomic, a method is not, so the calls  *)
(* of one task interleave with those of another.  The store holds          *)
(* container c1; the calls are on blob b1 of it, the base blob or a        *)
(* snapshot.  A task records the tasks that had returned when it began.    *)
(***************************************************************************)
StoreContainer == "c1"
StoreBlob == "b1"
StoreIdle ==
    [pc |-> "idle", call |-> None, s |-> BaseSnapshot, id |-> None, ids |-> {},
     after |-> {}, result |-> None, got |-> 0]

InitStore ==
    /\ containers = Put(EmptyMap, StoreContainer, ContainerModel_new(0))
    /\ blobs = EmptyMap
    /\ blob_index = EmptyMap
    /\ blocks = EmptyMap
    /\ block_index = EmptyMap
    /\ extents = EmptyMap
    /\ nextEtag = 0
    /\ nextExtent = 0
    /\ clock = 0
    /\ last = Response("none", None, None, BaseSnapshot, "OK", 200, <<>>)
    /\ served = 0
    /\ tasks = [t \in Tasks |-> StoreIdle]

Returned == {t \in Tasks : tasks[t].pc = "done"}
StoreKey(t) == <<StoreContainer, StoreBlob, tasks[t].s>>
StoreUnchanged == UNCHANGED <<containers, extents, nextEtag, nextExtent, clock, last, served>>

\* A handler calls a method of the store.  update_blob follows a get_blob
\* that found the blob, and the create_blob of a snapshot one that found the
\* base blob.
store_call(t, call, s, id) ==
    /\ tasks[t].pc = "idle"
    /\ call = "update_blob" => <<StoreContainer, StoreBlob, s>> \in DOMAIN blobs
    /\ (call = "create_blob" /\ s # BaseSnapshot)
          => <<StoreContainer, StoreBlob, BaseSnapshot>> \in DOMAIN blobs
    /\ call \in {"stage_block", "delete_staged_blocks"} => s = BaseSnapshot
    /\ call # "stage_block" => id = None
    /\ call = "stage_block" => id # None
    /\ tasks' = [tasks EXCEPT ![t] = [StoreIdle EXCEPT !.pc = call, !.call = call,
                                         !.s = s, !.id = id, !.after = Returned]]
    /\ UNCHANGED <<blobs, blob_index, blocks, block_index>>
    /\ StoreUnchanged

\* The blob task t stores: its ETag names the task.
StoreBlobOf(t) == BlobModel_new("BlockBlob", 0, t)

\* create_blob: "self.blob_index.entry(index_key).or_default().insert(blob_name)"
create_blob_entry(t) ==
    /\ tasks[t].pc = "create_blob"
    /\ blob_index' = create_blob_index(blob_index, StoreContainer, StoreBlob)
    /\ tasks' = [tasks EXCEPT ![t].pc = "create_blob_insert"]
    /\ UNCHANGED <<blobs, blocks, block_index>>
    /\ StoreUnchanged

\* create_blob: "self.blobs.insert(key, blob); Ok(())"
create_blob_insert(t) ==
    /\ tasks[t].pc = "create_blob_insert"
    /\ blobs' = create_blob_blobs(blobs, StoreContainer, StoreBlob, tasks[t].s,
                                  StoreBlobOf(t))
    /\ tasks' = [tasks EXCEPT ![t].pc = "done", ![t].result = "OK"]
    /\ UNCHANGED <<blob_index, blocks, block_index>>
    /\ StoreUnchanged

\* update_blob: "self.blobs.insert(key, blob); Ok(())"
update_blob_insert(t) ==
    /\ tasks[t].pc = "update_blob"
    /\ blobs' = update_blob_blobs(blobs, StoreContainer, StoreBlob, tasks[t].s,
                                  StoreBlobOf(t))
    /\ tasks' = [tasks EXCEPT ![t].pc = "done", ![t].result = "OK"]
    /\ UNCHANGED <<blob_index, blocks, block_index>>
    /\ StoreUnchanged

\* A delete_blob that reports success whatever it removed.
delete_blob_result_ok(bl, key) == "OK"

\* delete_blob: "removed.map(|_| ()).ok_or_else(|| BlobNotFound)"
delete_blob_result(bl, key) ==
    IF key \in DOMAIN bl THEN "OK" ELSE "BlobNotFound"

\* delete_blob: "let removed = self.blobs.remove(&key)"; the result is
\* BlobNotFound when nothing was removed.
delete_blob_remove(t) ==
    /\ tasks[t].pc = "delete_blob"
    /\ blobs' = delete_blob_blobs(blobs, StoreContainer, StoreBlob, tasks[t].s)
    /\ tasks' = [tasks EXCEPT ![t].pc = "delete_blob_index",
                              ![t].result = delete_blob_result(blobs, StoreKey(t))]
    /\ UNCHANGED <<blob_index, blocks, block_index>>
    /\ StoreUnchanged

\* delete_blob: "if snapshot.is_empty() { .. entry.remove(name) }", then the
\* result.
delete_blob_entry(t) ==
    /\ tasks[t].pc = "delete_blob_index"
    /\ blob_index' = delete_blob_index(blob_index, StoreContainer, StoreBlob, tasks[t].s)
    /\ tasks' = [tasks EXCEPT ![t].pc = "done"]
    /\ UNCHANGED <<blobs, blocks, block_index>>
    /\ StoreUnchanged

\* get_blob: "self.blobs.get(&key) .. .ok_or_else(BlobNotFound)"
get_blob_get(t) ==
    /\ tasks[t].pc = "get_blob"
    /\ LET r == get_blob(StoreContainer, StoreBlob, tasks[t].s)
       IN tasks' = [tasks EXCEPT ![t].pc = "done", ![t].result = r.err,
                                 ![t].got = IF r.err = "OK" THEN r.blob.etag ELSE 0]
    /\ UNCHANGED <<blobs, blob_index, blocks, block_index>>
    /\ StoreUnchanged

\* stage_block: "self.block_index.entry(index_key).or_default().insert(block_id)"
stage_block_entry(t) ==
    /\ tasks[t].pc = "stage_block"
    /\ block_index' = stage_block_index(block_index, StoreContainer, StoreBlob, tasks[t].id)
    /\ tasks' = [tasks EXCEPT ![t].pc = "stage_block_insert"]
    /\ UNCHANGED <<blobs, blob_index, blocks>>
    /\ StoreUnchanged

\* stage_block: "self.blocks.insert(key, block); Ok(())"
stage_block_insert(t) ==
    /\ tasks[t].pc = "stage_block_insert"
    /\ blocks' = stage_block_blocks(blocks, StoreContainer, StoreBlob, tasks[t].id,
                     BlockModel_new(tasks[t].id, 0, ExtentChunk(t, 0, 0)))
    /\ tasks' = [tasks EXCEPT ![t].pc = "done", ![t].result = "OK"]
    /\ UNCHANGED <<blobs, blob_index, block_index>>
    /\ StoreUnchanged

\* delete_staged_blocks: "self.block_index.remove(&index_key)" hands over
\* the ids the index held.
delete_staged_blocks_entry(t) ==
    /\ tasks[t].pc = "delete_staged_blocks"
    /\ block_index' = delete_staged_blocks_index(block_index, StoreContainer, StoreBlob)
    /\ tasks' = [tasks EXCEPT ![t].pc = "delete_staged_blocks_loop",
                              ![t].ids = IF <<StoreContainer, StoreBlob>> \in DOMAIN block_index
                                         THEN block_index[<<StoreContainer, StoreBlob>>]
                                         ELSE {}]
    /\ UNCHANGED <<blobs, blob_index, blocks>>
    /\ StoreUnchanged

\* delete_staged_blocks: "for block_id in block_ids { self.blocks.remove(&key); }"
\* in the iteration order of the HashSet, then Ok(()).
delete_staged_blocks_remove(t) ==
    /\ tasks[t].pc = "delete_staged_blocks_loop"
    /\ IF tasks[t].ids = {}
       THEN /\ tasks' = [tasks EXCEPT ![t].pc = "done", ![t].result = "OK"]
            /\ UNCHANGED blocks
       ELSE \E id \in tasks[t].ids :
               /\ blocks' = Remove(blocks, <<StoreContainer, StoreBlob, id>>)
               /\ tasks' = [tasks EXCEPT ![t].ids = @ \ {id}]
    /\ UNCHANGED <<blobs, blob_index, block_index>>
    /\ StoreUnchanged

StoreCalls ==
    {"create_blob", "update_blob", "delete_blob", "get_blob", "stage_block",
     "delete_staged_blocks"}

NextStore ==
    \/ \E t \in Tasks, call \in StoreCalls, s \in Snapshots, id \in BlockIds \cup {None} :
          store_call(t, call, s, id)
    \/ \E t \in Tasks : create_blob_entry(t)
    \/ \E t \in Tasks : create_blob_insert(t)
    \/ \E t \in Tasks : update_blob_insert(t)
    \/ \E t \in Tasks : delete_blob_remove(t)
    \/ \E t \in Tasks : delete_blob_entry(t)
    \/ \E t \in Tasks : get_blob_get(t)
    \/ \E t \in Tasks : stage_block_entry(t)
    \/ \E t \in Tasks : stage_block_insert(t)
    \/ \E t \in Tasks : delete_staged_blocks_entry(t)
    \/ \E t \in Tasks : delete_staged_blocks_remove(t)

SpecStore == InitStore /\ [][NextStore]_vars

\* No call of the metadata store is in progress.
StoreQuiescent == \A t \in Tasks : tasks[t].pc \in {"idle", "done"}

\* C11: whenever no metadata-store call is in progress, the blob index of a
\* container holds a name exactly when the base blob of that name is in the
\* primary map, and the block index of a blob holds an id exactly when that
\* block is in the primary map.
C11_IndexMatchesPrimary ==
    StoreQuiescent =>
        /\ \A c \in Containers, n \in BlobNames :
              (c \in DOMAIN blob_index /\ n \in blob_index[c])
                 <=> <<c, n, BaseSnapshot>> \in DOMAIN blobs
        /\ \A c \in Containers, n \in BlobNames, id \in BlockIds :
              (<<c, n>> \in DOMAIN block_index /\ id \in block_index[<<c, n>>])
                 <=> <<c, n, id>> \in DOMAIN blocks

(***************************************************************************)
(* Per-key linearizability of the blob calls.  The entry of a key is 0     *)
(* when the key is absent and the ETag of the stored blob otherwise.       *)
(***************************************************************************)
BlobCalls == {"create_blob", "update_blob", "delete_blob", "get_blob"}

\* The calls on snapshot s of the blob that have returned.
ReturnedOn(s) == {t \in Returned : tasks[t].call \in BlobCalls /\ tasks[t].s = s}

\* The orders of a set of tasks in which a call that had returned when
\* another began comes before it.
RealTimeOrders(ts) ==
    {seq \in [1..Cardinality(ts) -> ts] :
        /\ \A i, j \in 1..Cardinality(ts) : i # j => seq[i] # seq[j]
        /\ \A i, j \in 1..Cardinality(ts) : i < j => seq[j] \notin tasks[seq[i]].after}

\* One call executed alone on an entry: the entry it leaves, and whether the
\* result the task recorded is the result of that execution.
SeqEntry(entry, t) ==
    CASE tasks[t].call \in {"create_blob", "update_blob"} -> t
      [] tasks[t].call = "delete_blob" -> 0
      [] OTHER -> entry
SeqResultMatches(entry, t) ==
    CASE tasks[t].call \in {"create_blob", "update_blob"} -> tasks[t].result = "OK"
      [] tasks[t].call = "delete_blob" ->
            tasks[t].result = (IF entry # 0 THEN "OK" ELSE "BlobNotFound")
      [] OTHER ->
            IF entry # 0 THEN tasks[t].result = "OK" /\ tasks[t].got = entry
            ELSE tasks[t].result = "BlobNotFound"

\* The sequential execution of seq from entry gives each task its recorded
\* result and ends with the entry final.
RECURSIVE SeqExplains(_, _, _)
SeqExplains(seq, entry, final) ==
    IF seq = <<>> THEN entry = final
    ELSE /\ SeqResultMatches(entry, Head(seq))
         /\ SeqExplains(Tail(seq), SeqEntry(entry, Head(seq)), final)

StoredEntry(s) ==
    IF <<StoreContainer, StoreBlob, s>> \in DOMAIN blobs
    THEN blobs[<<StoreContainer, StoreBlob, s>>].etag ELSE 0

\* C12: once the concurrent create_blob, update_blob, delete_blob and
\* get_blob calls on a key have returned, some order of them that respects
\* which call returned before which began explains, executed one call at a
\* time from the empty store, every call's result and the stored entry.
C12_BlobCallsLinearizable ==
    StoreQuiescent =>
        \A s \in Snapshots :
            \E seq \in RealTimeOrders(ReturnedOn(s)) : SeqExplains(seq, 0, StoredEntry(s))

\* A delete_blob that removed the blob and a create_blob of the same key
\* overlapped (neither had returned when the other began) and have returned.
C12_Witness ==
    /\ StoreQuiescent
    /\ \E t, u \in ReturnedOn(BaseSnapshot) :
          /\ tasks[t].call = "delete_blob" /\ tasks[t].result = "OK"
          /\ tasks[u].call = "create_blob"
          /\ t \notin tasks[u].after /\ u \notin tasks[t].after

(***************************************************************************)
(* handlers/container.rs: container_lease.                                 *)
(***************************************************************************)
\* The error of the lease action against the container, or OK.
container_lease_check(container, req) ==
    CASE req.action = "acquire" ->
            IF container.lease_state = "Leased" THEN "LeaseAlreadyPresent" ELSE "OK"
      [] req.action = "release" ->
            IF req.lease = None THEN "LeaseIdMissing"
            ELSE IF container.lease_id # req.lease
                 THEN "LeaseIdMismatchWithContainerOperation"
            ELSE "OK"
      [] req.action = "renew" ->
            IF req.lease = None THEN "LeaseIdMissing"
            ELSE IF container.lease_id # req.lease
                 THEN "LeaseIdMismatchWithContainerOperation"
            ELSE IF container.lease_state # "Leased"
                 THEN "LeaseIsBrokenAndCannotBeRenewed"
            ELSE "OK"
      [] req.action = "break" ->
            IF container.lease_state = "Available"
            THEN "LeaseNotPresentWithContainerOperation"
            ELSE "OK"
      [] req.action = "change" ->
            IF req.lease = None THEN "LeaseIdMissing"
            ELSE IF container.lease_id # req.lease
                 THEN "LeaseIdMismatchWithContainerOperation"
            ELSE IF req.proposed = None THEN "MissingRequiredHeader"
            ELSE "OK"
      [] OTHER -> "InvalidHeaderValue"

\* The container the lease action leaves, before update_etag.
container_lease_model(container, req, now) ==
    CASE req.action = "acquire" ->
            [container EXCEPT
                !.lease_state = "Leased",
                !.lease_status = "Locked",
                !.lease_id = req.proposed,
                !.lease_duration = IF req.duration = -1 THEN "Infinite" ELSE "Fixed",
                !.lease_expiry = IF req.duration = -1 THEN @ ELSE Some(now + req.duration)]
      [] req.action = "release" ->
            [container EXCEPT !.lease_state = "Available",
                              !.lease_status = "Unlocked",
                              !.lease_id = None,
                              !.lease_duration = None,
                              !.lease_expiry = Nothing]
      [] req.action = "renew" ->
            [container EXCEPT
                !.lease_expiry = IF container.lease_duration = "Fixed"
                                 THEN Some(now + 60) ELSE @]
      [] req.action = "break" ->
            IF req.break_period = 0
            THEN [container EXCEPT !.lease_state = "Broken",
                                   !.lease_status = "Unlocked",
                                   !.lease_id = None]
            ELSE [container EXCEPT !.lease_state = "Breaking",
                                   !.lease_break_time = Some(now + req.break_period)]
      [] req.action = "change" ->
            [container EXCEPT !.lease_id = req.proposed]

\* PUT /{container}?restype=container&comp=lease
container_lease(c, req) ==
    LET r == get_container(c)
        err == IF r.err # "OK" THEN r.err ELSE container_lease_check(r.container, req)
    IN IF err # "OK"
       THEN Reject("container_lease", c, None, BaseSnapshot, err)
       ELSE /\ nextEtag' = nextEtag + 1
            /\ containers' = Put(containers, c,
                                 update_etag(container_lease_model(r.container, req, clock),
                                             nextEtag + 1))
            /\ last' = [Response("container_lease", c, None, BaseSnapshot, "OK", 200, <<>>)
                           EXCEPT !.lease_time = lease_time(req)]
            /\ UNCHANGED <<blobs, blob_index, blocks, block_index, extents,
                           nextExtent, clock, tasks>>

(***************************************************************************)
(* Leases over time.  The server handles one request at a time on          *)
(* container c1 and its blob b1; between two requests time may pass.  The  *)
(* clock counts seconds here.                                              *)
(***************************************************************************)
\* The seconds that may pass between two requests.
TickSeconds == {20}
\* x-ms-lease-duration values, the valid ones and their neighbours.
AnyLeaseDurations == {-1, 14, 15, 60, 61}
LeaseContainers == {StoreContainer}

\* Utc::now() moves on.
tick ==
    /\ Serving
    /\ clock < MaxClock
    /\ \E d \in TickSeconds : clock' = clock + d
    /\ UNCHANGED <<containers, blobs, blob_index, blocks, block_index, extents,
                   nextEtag, nextExtent, last, served, tasks>>

NextLease ==
    \/ \E c \in LeaseContainers : Accept /\ create_container(c)
    \/ \E c \in LeaseContainers, b \in BlobNames, l \in LeaseHeaders :
          Accept /\ upload_block_blob(c, b, l, <<>>, EmptyMeta)
    \/ \E c \in LeaseContainers, b \in BlobNames,
          req \in LeaseRequestsWith(AnyLeaseDurations) : Accept /\ blob_lease(c, b, req)
    \/ \E c \in LeaseContainers, req \in LeaseRequestsWith(AnyLeaseDurations) :
          Accept /\ container_lease(c, req)
    \/ \E c \in LeaseContainers, b \in BlobNames, l \in LeaseHeaders, m \in Metas :
          Accept /\ set_blob_metadata(c, b, l, m)
    \/ \E c \in LeaseContainers, l \in LeaseHeaders : Accept /\ delete_container(c, l)
    \/ tick

SpecLease == Init /\ [][NextLease]_vars

(***************************************************************************)
(* Handlers that read a blob, change the copy and store it, served         *)
(* concurrently: blob_lease (acquire), append_block and seal_append_blob   *)
(* call get_blob, check and change the BlobModel they got, and call        *)
(* update_blob.  No lock is held from the one call to the other, so the    *)
(* calls of one request interleave with those of another.  The store holds *)
(* what create_container c1 and create_append_blob c1/b1 leave.            *)
(***************************************************************************)
RaceIdle ==
    [pc |-> "idle", op |-> None, proposed |-> None, body |-> <<>>,
     appendpos |-> Nothing, blob |-> BlobModel_new("AppendBlob", 0, 0),
     code |-> None, status |-> 0, after |-> {}]

InitRace ==
    /\ containers = Put(EmptyMap, StoreContainer, ContainerModel_new(1))
    /\ blobs = Put(EmptyMap, <<StoreContainer, StoreBlob, BaseSnapshot>>,
                   BlobModel_new("AppendBlob", 0, 2))
    /\ blob_index = Put(EmptyMap, StoreContainer, {StoreBlob})
    /\ blocks = EmptyMap
    /\ block_index = EmptyMap
    /\ extents = EmptyMap
    /\ nextEtag = 2
    /\ nextExtent = 0
    /\ clock = 0
    /\ last = Response("none", None, None, BaseSnapshot, "OK", 200, <<>>)
    /\ served = 0
    /\ tasks = [t \in Tasks |-> RaceIdle]

\* x-ms-blob-condition-appendpos of an append: absent, or the position.
AppendPositions == {Nothing, Some(0), Some(1)}
\* Bodies of an append.
AppendBodies == {<<1>>, <<2, 3>>}

\* A request arrives and is routed to its handler.
race_begin(t, op, proposed, body, appendpos) ==
    /\ tasks[t].pc = "idle"
    /\ op = "blob_lease" => proposed # None /\ body = <<>> /\ appendpos = Nothing
    /\ op = "append_block" => proposed = None /\ body # <<>>
    /\ op = "seal_append_blob" => proposed = None /\ body = <<>> /\ appendpos = Nothing
    /\ tasks' = [tasks EXCEPT ![t] = [RaceIdle EXCEPT !.pc = "get_blob", !.op = op,
                                         !.proposed = proposed, !.body = body,
                                         !.appendpos = appendpos, !.after = Returned]]
    /\ UNCHANGED <<containers, blobs, blob_index, blocks, block_index, extents,
                   nextEtag, nextExtent, clock, last, served>>

\* The lease request of an acquire task: an infinite lease under its id.
RaceLeaseRequest(t) ==
    [action |-> "acquire", lease |-> None, proposed |-> tasks[t].proposed,
     duration |-> -1, break_period |-> 0]

\* "if blob.properties.content_length != expected { AppendPositionConditionNotMet }"
appendpos_check(blob, appendpos) ==
    IF appendpos # Nothing /\ blob.content_length # appendpos[1]
    THEN "AppendPositionConditionNotMet" ELSE "OK"

\* The checks of the handler against the blob it got.
race_check(t) ==
    LET r == get_blob(StoreContainer, StoreBlob, BaseSnapshot)
    IN CASE tasks[t].op = "blob_lease" ->
               IF r.err # "OK" THEN r.err ELSE blob_lease_check(r.blob, RaceLeaseRequest(t))
         [] tasks[t].op = "append_block" ->
               IF append_block_check(StoreContainer, StoreBlob, None) # "OK"
               THEN append_block_check(StoreContainer, StoreBlob, None)
               ELSE appendpos_check(r.blob, tasks[t].appendpos)
         [] OTHER -> seal_append_blob_check(StoreContainer, StoreBlob, None)

\* "let mut blob = metadata.get_blob(..).await?" and the checks up to the
\* change of the copy; an error is the response.
race_get_blob(t) ==
    /\ tasks[t].pc = "get_blob"
    /\ LET err == race_check(t)
       IN tasks' = [tasks EXCEPT ![t] =
                       IF err # "OK"
                       THEN [@ EXCEPT !.pc = "done", !.code = err,
                                      !.status = status_code(err)]
                       ELSE [@ EXCEPT !.pc = "update_blob",
                                      !.blob = blobs[<<StoreContainer, StoreBlob,
                                                       BaseSnapshot>>]]]
    /\ UNCHANGED <<containers, blobs, blob_index, blocks, block_index, extents,
                   nextEtag, nextExtent, clock, last, served>>

\* The copy the handler stores.
race_model(t, etag, extent_id) ==
    CASE tasks[t].op = "blob_lease" ->
            update_etag(blob_lease_model(tasks[t].blob, RaceLeaseRequest(t), clock), etag)
      [] tasks[t].op = "append_block" ->
            append_block_model(tasks[t].blob,
                               ExtentChunk(extent_id, 0, Len(tasks[t].body)),
                               Len(tasks[t].body), etag)
      [] OTHER -> update_etag([tasks[t].blob EXCEPT !.is_sealed = Some(TRUE)], etag)

\* "metadata.update_blob(blob.clone()).await?" and the response; an append
\* has written its extent (under a fresh id) before.
race_update_blob(t) ==
    /\ tasks[t].pc = "update_blob"
    /\ nextEtag' = nextEtag + 1
    /\ IF tasks[t].op = "append_block"
       THEN /\ nextExtent' = nextExtent + 1
            /\ extents' = extent_write(extents, nextExtent + 1, tasks[t].body)
       ELSE UNCHANGED <<nextExtent, extents>>
    /\ blobs' = update_blob_blobs(blobs, StoreContainer, StoreBlob, BaseSnapshot,
                                  race_model(t, nextEtag + 1, nextExtent + 1))
    /\ tasks' = [tasks EXCEPT ![t] =
                    [@ EXCEPT !.pc = "done", !.code = "OK",
                              !.status = IF tasks[t].op = "append_block" THEN 201 ELSE 200,
                              !.blob = race_model(t, nextEtag + 1, nextExtent + 1)]]
    /\ UNCHANGED <<containers, blob_index, blocks, block_index, clock, last, served>>

RaceOps == {"blob_lease", "append_block", "seal_append_blob"}

NextRace ==
    \/ \E t \in Tasks, op \in RaceOps, proposed \in LeaseHeaders,
          body \in AppendBodies \cup {<<>>}, appendpos \in AppendPositions :
          race_begin(t, op, proposed, body, appendpos)
    \/ \E t \in Tasks : race_get_blob(t)
    \/ \E t \in Tasks : race_update_blob(t)

SpecRace == InitRace /\ [][NextRace]_vars

\* The acquire requests that were answered 200.
Acquired == {t \in Returned : tasks[t].op = "blob_lease" /\ tasks[t].status = 200}

\* C13: of the acquire requests on a blob that was not leased, with no
\* release or break between them, at most one succeeds; once all of them
\* were answered exactly one has, and the lease id of the blob is its id.
C13_LeaseExclusive ==
    LET asked == {t \in Tasks : tasks[t].op = "blob_lease"}
    IN /\ Cardinality(Acquired) <= 1
       /\ (asked # {} /\ asked \subseteq Returned)
             => /\ Cardinality(Acquired) = 1
                /\ \A t \in Acquired :
                      blobs[<<StoreContainer, StoreBlob, BaseSnapshot>>].lease_id
                         = tasks[t].proposed

\* The fixed-duration lease of a blob or container record has run out.
lease_expired(record, now) ==
    /\ record.lease_state = "Leased"
    /\ record.lease_duration = "Fixed"
    /\ record.lease_expiry # Nothing
    /\ record.lease_expiry[1] < now

AcquireRequests == {req \in LeaseRequestsWith(AnyLeaseDurations) : req.action = "acquire"}

\* C14: once the expiry time of a fixed-duration lease has passed, a write
\* or delete without a lease id is not rejected for the lease and a new
\* acquire succeeds, on a blob and on a container.
C14_ExpiredLeaseNotInForce ==
    [][/\ last'.op \in {"set_blob_metadata", "blob_lease"}
          => \A c \in LeaseContainers, b \in BlobNames :
                (/\ get_blob(c, b, BaseSnapshot).err = "OK"
                 /\ lease_expired(blobs[<<c, b, BaseSnapshot>>], clock))
                => /\ \A m \in Metas :
                         set_blob_metadata(c, b, None, m) => last'.status = 200
                   /\ \A req \in AcquireRequests :
                         blob_lease(c, b, req) => last'.status = 200
       /\ last'.op \in {"delete_container", "container_lease"}
          => \A c \in LeaseContainers :
                (container_exists(c) /\ lease_expired(containers[c], clock))
                => /\ delete_container(c, None) => last'.status = 202
                   /\ \A req \in AcquireRequests :
                         container_lease(c, req) => last'.status = 200]_vars

\* The lease of a blob (of a container) record is in force: a write or
\* delete without a lease id is rejected, or an acquire is.
AnAcquire == CHOOSE req \in AcquireRequests : TRUE
blob_lease_in_force(blob) ==
    \/ check_blob_lease(blob, None) # "OK"
    \/ blob_lease_check(blob, AnAcquire) # "OK"
container_lease_in_force(container) ==
    \/ check_container_lease(container, None) # "OK"
    \/ container_lease_check(container, AnAcquire) # "OK"

\* The break time of a Breaking record has passed.
break_time_passed(record, now) ==
    /\ record.lease_state = "Breaking"
    /\ record.lease_break_time # Nothing
    /\ record.lease_break_time[1] < now

\* What a break that succeeded on a Leased record leaves: Broken and lease
\* time 0 for break period 0, Breaking and the break time now + period
\* otherwise.
break_outcome(before, after, response, now) ==
    before.lease_state = "Leased"
       => IF response.lease_time = Some(0)
          THEN after.lease_state = "Broken" /\ after.lease_status = "Unlocked"
          ELSE /\ after.lease_state = "Breaking"
               /\ after.lease_break_time = Some(now + response.lease_time[1])

\* C15: a break on a Leased blob or container with break period 0 leaves it
\* Broken and answers lease time 0; with a break period > 0 it leaves it
\* Breaking with the break time now + break_period, and once that time has
\* passed the lease is not in force.
C15_BreakOutcome ==
    [][/\ (last'.op = "blob_lease" /\ last'.status = 200 /\ last'.lease_time # Nothing)
          => break_outcome(blobs[<<last'.c, last'.b, BaseSnapshot>>],
                           blobs'[<<last'.c, last'.b, BaseSnapshot>>], last', clock)
       /\ (last'.op = "container_lease" /\ last'.status = 200 /\ last'.lease_time # Nothing)
          => break_outcome(containers[last'.c], containers'[last'.c], last', clock)
       /\ \A k \in DOMAIN blobs' :
             break_time_passed(blobs'[k], clock') => ~blob_lease_in_force(blobs'[k])
       /\ \A c \in DOMAIN containers' :
             break_time_passed(containers'[c], clock')
                => ~container_lease_in_force(containers'[c])]_vars

\* A break with period 10 was answered on the leased blob, which is
\* Breaking, and the break time has passed.
C15_Witness ==
    /\ last.op = "blob_lease"
    /\ last.status = 200
    /\ last.lease_time = Some(10)
    /\ <<last.c, last.b, BaseSnapshot>> \in DOMAIN blobs
    /\ blobs[<<last.c, last.b, BaseSnapshot>>].lease_id # None
    /\ break_time_passed(blobs[<<last.c, last.b, BaseSnapshot>>], clock)

\* The lease requests other than acquire.
HolderRequests == {req \in LeaseRequestsWith(AnyLeaseDurations) : req.action # "acquire"}

\* C16: on a blob or container whose lease state is Available, a release,
\* renew, change or break fails with LeaseNotPresentWithBlobOperation /
\* LeaseNotPresentWithContainerOperation (409), whatever lease id it
\* carries, and the lease state stays Available.
C16_NoLeaseToActOn ==
    [][/\ last'.op = "blob_lease"
          => \A c \in LeaseContainers, b \in BlobNames, req \in HolderRequests :
                (/\ get_blob(c, b, BaseSnapshot).err = "OK"
                 /\ blobs[<<c, b, BaseSnapshot>>].lease_state = "Available"
                 /\ blob_lease(c, b, req))
                => /\ last'.code = "LeaseNotPresentWithBlobOperation"
                   /\ last'.status = 409
                   /\ blobs'[<<c, b, BaseSnapshot>>].lease_state = "Available"
       /\ last'.op = "container_lease"
          => \A c \in LeaseContainers, req \in HolderRequests :
                (/\ container_exists(c)
                 /\ containers[c].lease_state = "Available"
                 /\ container_lease(c, req))
                => /\ last'.code = "LeaseNotPresentWithContainerOperation"
                   /\ last'.status = 409
                   /\ containers'[c].lease_state = "Available"]_vars

\* The lease durations the service accepts: infinite, or 15 to 60 seconds.
ValidLeaseDurations == {-1} \cup (15..60)

\* C17: an acquire that asks for a duration other than -1 or 15..60 seconds
\* does not leave the blob or container Leased.
C17_LeaseDurationValid ==
    [][/\ last'.op = "blob_lease"
          => \A c \in LeaseContainers, b \in BlobNames, req \in AcquireRequests :
                (/\ req.duration \notin ValidLeaseDurations
                 /\ get_blob(c, b, BaseSnapshot).err = "OK"
                 /\ blobs[<<c, b, BaseSnapshot>>].lease_state # "Leased"
                 /\ blob_lease(c, b, req))
                => blobs'[<<c, b, BaseSnapshot>>].lease_state # "Leased"
       /\ last'.op = "container_lease"
          => \A c \in LeaseContainers, req \in AcquireRequests :
                (/\ req.duration \notin ValidLeaseDurations
                 /\ container_exists(c)
                 /\ containers[c].lease_state # "Leased"
                 /\ container_lease(c, req))
                => containers'[c].lease_state # "Leased"]_vars

\* The seal requests that were answered 200.
Sealed == {t \in Returned : tasks[t].op = "seal_append_blob" /\ tasks[t].status = 200}

\* C18: once a seal has succeeded, the blob stays sealed with the chunks and
\* the content_length it had at the seal, whatever append-block requests run
\* beside it or after it, and every append-block that began after the seal
\* was answered fails with InvalidOperation.
C18_SealIsFinal ==
    \A t \in Sealed :
        LET blob == blobs[<<StoreContainer, StoreBlob, BaseSnapshot>>]
        IN (\A u \in 1..MaxTasks : tasks[u].op \in {"none", "seal_append_blob", "append_block"}) =>
           /\ blob.is_sealed = Some(TRUE)
           /\ blob.extent_chunks = tasks[t].blob.extent_chunks
           /\ blob.content_length = tasks[t].blob.content_length
           /\ \A u \in Returned :
                 (tasks[u].op = "append_block" /\ t \in tasks[u].after)
                    => tasks[u].code = "InvalidOperation"

\* The appends of a non-empty body under append position p answered 201.
AppendedAt(p) ==
    {t \in Returned : /\ tasks[t].op = "append_block"
                      /\ tasks[t].appendpos = Some(p)
                      /\ tasks[t].body # <<>>
                      /\ tasks[t].status = 201}

\* C19: of the non-empty appends that carry the same append position, at
\* most one succeeds.
C19_AppendPosExclusive ==
    \A p \in 0..1 : Cardinality(AppendedAt(p)) <= 1

\* The requests that commit a block list on a blob or overwrite the blob.
OverwritingOps ==
    {"commit_block_list", "upload_block_blob", "copy_blob",
     "create_append_blob", "create_page_blob"}

\* The blocks staged for blob (c, n): the keys of the primary map bks and the
\* ids the index bidx names.
staged_keys(bks, c, n) == {k \in DOMAIN bks : k[1] = c /\ k[2] = n}
indexed_ids(bidx, c, n) == IF <<c, n>> \in DOMAIN bidx THEN bidx[<<c, n>>] ELSE {}

\* C20: right after a commit-block-list or an overwrite of a blob that
\* succeeded, no block is staged for the blob: its uncommitted block list is
\* empty and the store holds no block of it.
C20_StagedBlocksCleared ==
    [][(/\ last'.op \in OverwritingOps
        /\ last'.status < 300)
          => /\ staged_keys(blocks', last'.c, last'.b) = {}
             /\ indexed_ids(block_index', last'.c, last'.b) = {}]_vars

\* The full download of blob (c, b) answers 200 with exactly the bytes X.
Downloads(conts, bl, ext, c, b, X) ==
    download(conts, bl, ext, c, b, BaseSnapshot) = [err |-> "OK", data |-> X]

\* The record upload_block_blob stores, not written since: a block blob that
\* is no copy, with its body in one chunk.
Uploaded(bl, c, b) ==
    /\ <<c, b, BaseSnapshot>> \in DOMAIN bl
    /\ LET blob == bl[<<c, b, BaseSnapshot>>]
       IN /\ blob.blob_type = "BlockBlob"
          /\ blob.copy_status = Nothing
          /\ Len(blob.extent_chunks) = (IF blob.content_length > 0 THEN 1 ELSE 0)

\* C21: right after a block-blob upload of body X that succeeded, a full
\* download returns exactly X with status 200 and a Content-Length of Len(X),
\* and a request that is not addressed to that base blob (and does not delete
\* its container) leaves the download of an uploaded blob as it was.
C21_UploadRoundTrips ==
    [][/\ \A c \in Containers, b \in BlobNames, l \in LeaseHeaders,
             body \in Bodies, m \in Metas :
             (/\ last'.op = "upload_block_blob"
              /\ last'.status = 201
              /\ upload_block_blob(c, b, l, body, m))
                => /\ Downloads(containers', blobs', extents', c, b, body)
                   /\ blobs'[<<c, b, BaseSnapshot>>].content_length = Len(body)
       /\ \A c \in Containers, b \in BlobNames, X \in Bodies :
             (/\ Uploaded(blobs, c, b)
              /\ Downloads(containers, blobs, extents, c, b, X)
              /\ ~(last'.c = c /\ last'.b = b /\ last'.s = BaseSnapshot)
              /\ ~(last'.c = c /\ last'.op = "delete_container"))
                => Downloads(containers', blobs', extents', c, b, X)]_vars

(***************************************************************************)
(* Reads with a Range header and requests with conditional headers, served  *)
(* one at a time against a store that holds container c1.                   *)
(***************************************************************************)
\* upload_block_blob, commit_block_list and append_block never read the
\* conditional headers of the request.
upload_block_blob_with(c, b, lease, body, meta, cond) ==
    upload_block_blob(c, b, lease, body, meta)
commit_block_list_with(c, b, lease, body, meta, cond) ==
    commit_block_list(c, b, lease, body, meta)

\* The store after create_container c1.
InitCond ==
    /\ containers = Put(EmptyMap, StoreContainer, ContainerModel_new(1))
    /\ blobs = EmptyMap
    /\ blob_index = EmptyMap
    /\ blocks = EmptyMap
    /\ block_index = EmptyMap
    /\ extents = EmptyMap
    /\ nextEtag = 1
    /\ nextExtent = 0
    /\ clock = 0
    /\ last = Response("none", None, None, BaseSnapshot, "OK", 200, <<>>)
    /\ served = 0
    /\ tasks = [t \in Tasks |-> IdleTask]

\* The values of If-Match and If-None-Match: absent, "*", or an ETag the
\* first writes of a behaviour draw.
IfHeaders == {Nothing, Some(AnyETag)} \cup {Some(e) : e \in 2..MaxETag}
Conds == [if_match : IfHeaders, if_none_match : IfHeaders]

\* The Range headers: absent, "bytes=start-" and "bytes=start-end".
RangeEnds(start) == {Nothing} \cup {Some(e) : e \in start..MaxOffset}
Ranges ==
    {Nothing} \cup {Some([start |-> a, end |-> e]) :
                       a \in 0..MaxOffset, e \in UNION {RangeEnds(x) : x \in 0..MaxOffset}}

\* A Range header whose end is not before its start.
Ordered(range) ==
    IF range = Nothing THEN TRUE
    ELSE IF range[1].end = Nothing THEN TRUE
    ELSE range[1].start <= range[1].end[1]

NextCond ==
    \/ \E body \in Bodies, cond \in Conds :
          Accept /\ upload_block_blob_with(StoreContainer, StoreBlob, None, body,
                                           EmptyMeta, cond)
    \/ \E id \in BlockIds, body \in Bodies :
          Accept /\ stage_block(StoreContainer, StoreBlob, None, id, body)
    \/ \E body \in BlockListBodies, cond \in Conds :
          Accept /\ commit_block_list_with(StoreContainer, StoreBlob, None, body,
                                           EmptyMeta, cond)
    \/ \E m \in Metas, cond \in Conds :
          Accept /\ set_blob_metadata_with(StoreContainer, StoreBlob, None, m, cond)
    \/ \E cond \in Conds :
          Accept /\ delete_blob_with(StoreContainer, StoreBlob, BaseSnapshot, None, cond)
    \/ \E range \in Ranges, cond \in Conds :
          Accept /\ Ordered(range)
                 /\ download_blob_with(StoreContainer, StoreBlob, BaseSnapshot, range, cond)
    \/ \E cond \in Conds :
          Accept /\ get_blob_properties_with(StoreContainer, StoreBlob, BaseSnapshot, cond)

SpecCond == InitCond /\ [][NextCond]_vars

\* The base blob c1/b1 and the bytes of its full download.
CondKey == <<StoreContainer, StoreBlob, BaseSnapshot>>
FullContent == read_chunks(extents, blobs[CondKey].extent_chunks)

\* The Range headers "bytes=start-end" that lie inside a blob of length L.
InsideRanges(L) ==
    {r \in Ranges \ {Nothing} :
        /\ r[1].end # Nothing
        /\ r[1].start <= r[1].end[1]
        /\ r[1].end[1] < L}

\* C22: a range read start..=end inside a blob of length L returns bytes
\* [start..=end] of the blob's content with status 206 and
\* Content-Range: bytes start-end/L, whatever chunks the range spans.
C22_RangeReadExact ==
    [][(/\ last'.op = "download_blob"
        /\ CondKey \in DOMAIN blobs
        /\ FullContent.err = "OK")
          => \A r \in InsideRanges(blobs[CondKey].content_length) :
                download_blob_with(StoreContainer, StoreBlob, BaseSnapshot, r, NoCond)
                  => /\ last'.status = 206
                     /\ last'.data = SubSeq(FullContent.data, r[1].start + 1,
                                            r[1].end[1] + 1)
                     /\ last'.content_range
                          = Some(<<r[1].start, r[1].end[1],
                                   blobs[CondKey].content_length>>)]_vars

\* A range read of the second byte of one chunk up to the first byte of the
\* next one was answered.
C22_Witness ==
    /\ last.op = "download_blob"
    /\ last.status = 206
    /\ CondKey \in DOMAIN blobs
    /\ Len(blobs[CondKey].extent_chunks) = 2
    /\ blobs[CondKey].extent_chunks[1].count = 2
    /\ last.content_range = Some(<<1, 2, 3>>)
    /\ last.data = <<3, 1>>

\* C23: a download whose Range start is at or beyond the blob's
\* content_length fails with InvalidRange, and the status of that error is 416.
C23_InvalidRangeIs416 ==
    [][\A r \in Ranges \ {Nothing} :
          (/\ last'.op = "download_blob"
           /\ CondKey \in DOMAIN blobs
           /\ r[1].start >= blobs[CondKey].content_length
           /\ download_blob_with(StoreContainer, StoreBlob, BaseSnapshot, r, NoCond))
             => /\ last'.code = "InvalidRange"
                /\ last'.status = 416]_vars

\* The ETag of the base blob c1/b1 as an If-Match / If-None-Match header.
CurrentETag == Some(blobs[CondKey].etag)

\* The requests that change or delete the base blob c1/b1, with If-Match im.
CondWrite(im) ==
    LET cond == [if_match |-> im, if_none_match |-> Nothing]
    IN \/ \E body \in Bodies :
             upload_block_blob_with(StoreContainer, StoreBlob, None, body, EmptyMeta, cond)
       \/ \E body \in BlockListBodies :
             commit_block_list_with(StoreContainer, StoreBlob, None, body, EmptyMeta, cond)
       \/ \E m \in Metas :
             set_blob_metadata_with(StoreContainer, StoreBlob, None, m, cond)
       \/ delete_blob_with(StoreContainer, StoreBlob, BaseSnapshot, None, cond)

\* C26: a mutating request on an existing blob that carries If-Match: E with
\* E other than the blob's current ETag fails with ConditionNotMet (412) and
\* changes nothing.
C26_IfMatchGuardsWrites ==
    [][\A e \in 2..MaxETag :
          (/\ CondKey \in DOMAIN blobs
           /\ Some(e) # CurrentETag
           /\ CondWrite(Some(e)))
             => /\ last'.code = "ConditionNotMet"
                /\ last'.status = 412
                /\ blobs' = blobs /\ extents' = extents]_vars

\* C27: a download or get-properties request whose If-None-Match is the
\* blob's current ETag is answered 304, and a request that fails on any
\* other conditional header is answered ConditionNotMet (412).
C27_NotModifiedOnRead ==
    [][(/\ last'.op \in {"download_blob", "get_blob_properties"}
        /\ CondKey \in DOMAIN blobs)
          => LET match == [if_match |-> Nothing, if_none_match |-> CurrentETag]
                 stale == [if_match |-> Some(blobs[CondKey].etag + 1),
                           if_none_match |-> Nothing]
                 read(cond) ==
                     \/ download_blob_with(StoreContainer, StoreBlob, BaseSnapshot,
                                           Nothing, cond)
                     \/ get_blob_properties_with(StoreContainer, StoreBlob,
                                                 BaseSnapshot, cond)
             IN /\ read(match) => last'.status = 304
                /\ read(stale) => last'.code = "ConditionNotMet" /\ last'.status = 412]_vars

(***************************************************************************)
(* storage/metadata.rs: list_blobs.  A blob name is the sequence of its    *)
(* characters; str comparison is bytewise.                                 *)
(***************************************************************************)
Chars == {"/", "a"}
byte(ch) == IF ch = "/" THEN 47 ELSE 97

\* a < b and a <= b of str.
RECURSIVE str_lt(_, _)
str_lt(a, b) ==
    IF b = <<>> THEN FALSE
    ELSE IF a = <<>> THEN TRUE
    ELSE IF byte(Head(a)) # byte(Head(b)) THEN byte(Head(a)) < byte(Head(b))
    ELSE str_lt(Tail(a), Tail(b))
str_le(a, b) == a = b \/ str_lt(a, b)

\* str::starts_with
starts_with(name, p) == Len(p) <= Len(name) /\ SubSeq(name, 1, Len(p)) = p

\* str::find: the index of the first occurrence of pat in s from index i on.
RECURSIVE find_from(_, _, _)
find_from(s, pat, i) ==
    IF i + Len(pat) > Len(s) THEN Nothing
    ELSE IF SubSeq(s, i + 1, i + Len(pat)) = pat THEN Some(i)
    ELSE find_from(s, pat, i + 1)
find(s, pat) == find_from(s, pat, 0)

\* Vec::sort of names.
RECURSIVE sort_names(_)
sort_names(S) ==
    IF S = {} THEN <<>>
    ELSE LET m == CHOOSE x \in S : \A y \in S : str_le(x, y)
         IN <<m>> \o sort_names(S \ {m})

\* "for name in &sorted_names": the base blob, then its snapshots when asked
\* for, as (name, snapshot) entries; sorted by (name, snapshot) already.
RECURSIVE fetch_blobs(_, _, _, _)
fetch_blobs(bl, c, names, include_snapshots) ==
    IF names = <<>> THEN <<>>
    ELSE LET name == Head(names)
             base == IF <<c, name, BaseSnapshot>> \in DOMAIN bl
                     THEN <<[name |-> name, snapshot |-> BaseSnapshot]>>
                     ELSE <<>>
             snaps == IF include_snapshots
                      THEN {k[3] : k \in {k \in DOMAIN bl :
                                k[1] = c /\ k[2] = name /\ k[3] # BaseSnapshot}}
                      ELSE {}
             RECURSIVE snap_entries(_)
             snap_entries(n) ==
                 IF n > MaxSnap THEN <<>>
                 ELSE (IF n \in snaps THEN <<[name |-> name, snapshot |-> n]>> ELSE <<>>)
                      \o snap_entries(n + 1)
         IN base \o snap_entries(1) \o fetch_blobs(bl, c, Tail(names), include_snapshots)

\* A listing in which no blob has a virtual prefix.
virtual_prefix_none(name, prefix_str, delim) == Nothing

\* The virtual prefix of a blob under a delimiter, if it has one.
virtual_prefix(name, prefix_str, delim) ==
    LET name_after_prefix == SubSeq(name, Len(prefix_str) + 1, Len(name))
        idx == find(name_after_prefix, delim)
    IN IF idx = Nothing THEN Nothing
       ELSE Some(prefix_str \o SubSeq(name_after_prefix, 1, idx[1]) \o delim)

\* blobs.retain(..)
RECURSIVE retain(_, _, _)
retain(entries, prefix_str, delim) ==
    IF entries = <<>> THEN <<>>
    ELSE (IF virtual_prefix(Head(entries).name, prefix_str, delim) = Nothing
          THEN <<Head(entries)>> ELSE <<>>)
         \o retain(Tail(entries), prefix_str, delim)

\* MemoryMetadataStore::list_blobs: (blobs, prefixes, next_marker).
store_list_blobs(conts, bl, idx, c, prefix, delimiter, marker, maxresults, snaps) ==
    LET max == unwrap_or(maxresults, 5000)
        indexed == IF c \in DOMAIN idx THEN idx[c] ELSE {}
        blob_names == {name \in indexed :
                          /\ prefix # Nothing => starts_with(name, prefix[1])
                          /\ marker # Nothing => ~str_le(name, marker[1])}
        fetched == fetch_blobs(bl, c, sort_names(blob_names), snaps)
        prefix_str == unwrap_or(prefix, <<>>)
        kept == IF delimiter # Nothing
                THEN retain(fetched, prefix_str, delimiter[1])
                ELSE fetched
        prefixes == IF delimiter # Nothing
                    THEN sort_names({virtual_prefix(fetched[i].name, prefix_str,
                                                    delimiter[1])[1] :
                            i \in {j \in 1..Len(fetched) :
                                      virtual_prefix(fetched[j].name, prefix_str,
                                                     delimiter[1]) # Nothing}})
                    ELSE <<>>
        truncated == Len(kept) > max
        returned == IF truncated THEN SubSeq(kept, 1, max) ELSE kept
    IN IF c \notin DOMAIN conts THEN [err |-> "ContainerNotFound"]
       ELSE [err |-> "OK", blobs |-> returned, prefixes |-> prefixes,
             next_marker |-> IF truncated /\ returned # <<>>
                             THEN Some(returned[Len(returned)].name)
                             ELSE Nothing]

\* EnumerationResults: Prefix, Marker, MaxResults, Delimiter, the Blob and
\* BlobPrefix entries, NextMarker.
serialize_blob_list(r, params) ==
    Some([prefix |-> params.prefix, marker |-> params.marker,
          maxresults |-> unwrap_or(params.maxresults, 5000),
          delimiter |-> params.delimiter,
          blobs |-> r.blobs, prefixes |-> r.prefixes,
          next_marker |-> r.next_marker])

\* GET /{container}?restype=container&comp=list
list_blobs(c, params) ==
    LET r == store_list_blobs(containers, blobs, blob_index, c, params.prefix,
                              params.delimiter, params.marker,
                              Some(unwrap_or(params.maxresults, 5000)),
                              params.include_snapshots)
    IN IF r.err # "OK"
       THEN Reject("list_blobs", c, <<>>, BaseSnapshot, r.err)
       ELSE /\ last' = [Response("list_blobs", c, <<>>, BaseSnapshot, "OK", 200, <<>>)
                           EXCEPT !.listing = serialize_blob_list(r, params)]
            /\ UNCHANGED <<containers, blobs, blob_index, blocks, block_index,
                           extents, nextEtag, nextExtent, clock, tasks>>

(***************************************************************************)
(* Uploads, deletes and listings of container c1, one at a time.           *)
(***************************************************************************)
\* The names of at most n characters.
RECURSIVE NamesUpTo(_)
NamesUpTo(n) ==
    IF n = 0 THEN {<<>>}
    ELSE NamesUpTo(n - 1) \cup {<<ch>> \o m : ch \in Chars, m \in NamesUpTo(n - 1)}
ListNames == NamesUpTo(MaxNameLen) \ {<<>>}
Optional(S) == {Nothing} \cup {Some(x) : x \in S}
ListParams ==
    [prefix : Optional(NamesUpTo(MaxNameLen - 1)),
     delimiter : Optional({<<ch>> : ch \in Chars}),
     marker : Optional(NamesUpTo(MaxNameLen - 1)),
     maxresults : Optional(0..MaxResults),
     include_snapshots : {FALSE}]

InitList ==
    /\ containers = Put(EmptyMap, StoreContainer, ContainerModel_new(1))
    /\ blobs = EmptyMap
    /\ blob_index = EmptyMap
    /\ blocks = EmptyMap
    /\ block_index = EmptyMap
    /\ extents = EmptyMap
    /\ nextEtag = 1
    /\ nextExtent = 0
    /\ clock = 0
    /\ last = Response("none", None, <<>>, BaseSnapshot, "OK", 200, <<>>)
    /\ served = 0
    /\ tasks = [t \in Tasks |-> IdleTask]

ListServing == last.status < 300 /\ last.op # "list_blobs"
AcceptList == ListServing /\ served < MaxListRequests /\ served' = served + 1

NextList ==
    \/ \E name \in ListNames :
          AcceptList /\ upload_block_blob(StoreContainer, name, None, <<>>, EmptyMeta)
    \/ \E name \in ListNames :
          AcceptList /\ delete_blob(StoreContainer, name, BaseSnapshot, None)
    \/ \E params \in ListParams :
          AcceptList /\ list_blobs(StoreContainer, params)

SpecList == InitList /\ [][NextList]_vars

\* The names of the base blobs of container c1, the listing of the last
\* response and the names of its Blob entries.
StoredNames == {k[2] : k \in {k \in DOMAIN blobs : k[1] = StoreContainer /\ k[3] = BaseSnapshot}}
Listing == last.listing[1]
BlobEntries == [i \in 1..Len(Listing.blobs) |-> Listing.blobs[i].name]
Count(seq, x) == Cardinality({i \in 1..Len(seq) : seq[i] = x})

\* The positions at which D occurs in rest.
Occurrences(rest, D) ==
    {i \in 0..(Len(rest) - Len(D)) : SubSeq(rest, i + 1, i + Len(D)) = D}
FirstOf(S) == CHOOSE i \in S : \A j \in S : i <= j

\* C24: in a listing with prefix P and delimiter D (no marker, no
\* maxresults), a blob whose name starts with P and whose remainder contains
\* D appears as the BlobPrefix P + remainder up to and including the first D,
\* listed exactly once, and not as a Blob entry; every other blob whose name
\* starts with P is a Blob entry exactly once.
C24_DelimiterListing ==
    (/\ last.op = "list_blobs" /\ last.status = 200
     /\ Listing.delimiter # Nothing
     /\ Listing.marker = Nothing
     /\ Listing.maxresults > MaxResults)
       => LET P == unwrap_or(Listing.prefix, <<>>)
              D == Listing.delimiter[1]
          IN \A name \in {n \in StoredNames : starts_with(n, P)} :
                LET rest == SubSeq(name, Len(P) + 1, Len(name))
                    occ == Occurrences(rest, D)
                IN IF occ # {}
                   THEN /\ Count(Listing.prefixes,
                                 P \o SubSeq(rest, 1, FirstOf(occ)) \o D) = 1
                        /\ Count(BlobEntries, name) = 0
                   ELSE Count(BlobEntries, name) = 1

\* Two blobs under one virtual directory were listed as one BlobPrefix.
C24_Witness ==
    /\ last.op = "list_blobs" /\ last.status = 200
    /\ Listing.delimiter = Some(<<"/">>)
    /\ Listing.prefix = Nothing
    /\ Listing.marker = Nothing
    /\ Listing.maxresults > MaxResults
    /\ StoredNames = {<<"a", "/", "a">>, <<"a", "/", "/">>}
    /\ Listing.prefixes = << <<"a", "/">> >>
    /\ BlobEntries = <<>>

\* The listing of the same request with no limit on the number of results.
Untruncated ==
    store_list_blobs(containers, blobs, blob_index, StoreContainer, Listing.prefix,
                     Listing.delimiter, Listing.marker, Nothing, FALSE)

\* C25: a listing holds no Blob entry whose name is <= marker and at most
\* maxresults Blob entries, and carries a NextMarker, the name of the last
\* returned blob, exactly when the truncation left matching blobs out.
C25_Pagination ==
    (last.op = "list_blobs" /\ last.status = 200)
       => LET entries == BlobEntries
              left_out == Len(Untruncated.blobs) > Len(entries)
          IN /\ Listing.marker # Nothing
                  => \A i \in 1..Len(entries) : ~str_le(entries[i], Listing.marker[1])
             /\ Len(entries) <= Listing.maxresults
             /\ (Listing.next_marker # Nothing) <=> left_out
             /\ Listing.next_marker # Nothing
                  => /\ BlobEntries # <<>>
                     /\ Listing.next_marker[1] = BlobEntries[Len(BlobEntries)]


(***************************************************************************)
(* config.rs, context.rs: the accounts, and the parts of a request that    *)
(* authentication reads.  A header value and a signature are sequences of  *)
(* words; a string of one-letter flags (ss, srt, sp) is the sequence of    *)
(* its letters.                                                            *)
(***************************************************************************)
DEFAULT_ACCOUNT == "devstoreaccount1"
DEFAULT_ACCOUNT_KEY == "key1"

\* Config::get_account_key
get_account_key(account) ==
    IF account = DEFAULT_ACCOUNT THEN Some(DEFAULT_ACCOUNT_KEY) ELSE Nothing

\* RequestContext::header: the value when it is visible ASCII (to_str), None
\* when the header is absent or holds other bytes.
header(h) ==
    IF h = Nothing THEN Nothing
    ELSE IF h[1].text THEN Some(h[1].words) ELSE Nothing

\* str::split_once: the words before and after the first separator.
split_once(words, sep) ==
    LET hits == {i \in 1..Len(words) : words[i] = sep}
    IN IF hits = {} THEN Nothing
       ELSE LET i == CHOOSE k \in hits : \A j \in hits : k <= j
            IN Some(<<SubSeq(words, 1, i - 1), SubSeq(words, i + 1, Len(words))>>)

\* str::contains(char)
contains(str, ch) == \E i \in 1..Len(str) : str[i] = ch

\* The query parameters of a SAS token; none of them present.
NoSas ==
    [ss |-> Nothing, srt |-> Nothing, sr |-> Nothing, sv |-> Nothing,
     sp |-> Nothing, se |-> Nothing, sig |-> Nothing]

\* HashMap::is_empty of the query parameters.
query_params_is_empty(req) == req.comp = Nothing /\ req.restype = Nothing /\ req.sas = NoSas

(***************************************************************************)
(* auth/shared_key.rs                                                      *)
(***************************************************************************)
\* HMAC-SHA256 of the string-to-sign under the key, base64: equal exactly
\* when the string and the key are.
compute_signature(string_to_sign, account_key) == <<"hmac", string_to_sign, account_key>>

\* Verb, x-ms-* headers, /{account}{path}, and the query parameters.
build_string_to_sign(req) ==
    <<req.method, req.copy_source, <<req.account, req.container, req.blob>>,
      <<req.comp, req.restype, req.sas>>>>

\* Verb, x-ms-* headers, /{account}{path}, and only ?comp.
build_string_to_sign_lite(req) ==
    <<req.method, req.copy_source, <<req.account, req.container, req.blob>>, req.comp>>

validate_shared_key(req) ==
    LET auth_header == header(req.authorization)
    IN IF auth_header = Nothing THEN "AuthenticationFailed"
       ELSE LET parts == split_once(auth_header[1], <<" ">>)
            IN IF parts = Nothing THEN "AuthenticationFailed"
               ELSE LET scheme == parts[1][1]
                        credentials == split_once(parts[1][2], <<":">>)
                    IN IF scheme # << <<"SharedKey">> >> /\ scheme # << <<"SharedKeyLite">> >>
                       THEN "AuthenticationFailed"
                       ELSE IF credentials = Nothing THEN "AuthenticationFailed"
                       ELSE IF credentials[1][1] # << <<req.account>> >>
                       THEN "AuthorizationFailure"
                       ELSE IF get_account_key(req.account) = Nothing
                       THEN "AuthorizationFailure"
                       ELSE LET string_to_sign ==
                                    IF scheme = << <<"SharedKey">> >>
                                    THEN build_string_to_sign(req)
                                    ELSE build_string_to_sign_lite(req)
                                expected_signature ==
                                    compute_signature(string_to_sign,
                                                      get_account_key(req.account)[1])
                            IN IF credentials[1][2] # <<expected_signature>>
                               THEN "AuthenticationFailed"
                               ELSE "OK"

(***************************************************************************)
(* auth/account_sas.rs, auth/blob_sas.rs                                   *)
(***************************************************************************)
\* A date string is its format and the instant it names; only the three
\* formats chrono is asked to try parse.
parse_sas_datetime(str) ==
    IF str[1] \in {"rfc3339", "datetime", "date"} THEN Some(str[2]) ELSE Nothing

\* %Y-%m-%dT%H:%M:%SZ
format_sas_datetime(dt) == <<"datetime", dt>>

\* AccountSasParameters::from_query
account_sas_from_query(params) ==
    IF params.ss = Nothing \/ params.srt = Nothing THEN Nothing
    ELSE IF params.sv = Nothing \/ params.sp = Nothing \/ params.se = Nothing THEN Nothing
    ELSE IF parse_sas_datetime(params.se[1]) = Nothing THEN Nothing
    ELSE IF params.sig = Nothing THEN Nothing
    ELSE Some([signed_version |-> params.sv[1], signed_services |-> params.ss[1],
               signed_resource_types |-> params.srt[1],
               signed_permissions |-> params.sp[1],
               signed_expiry |-> parse_sas_datetime(params.se[1])[1],
               signature |-> params.sig[1]])

\* AccountSasParameters::build_string_to_sign
account_sas_string_to_sign(sas, account) ==
    <<account, sas.signed_permissions, sas.signed_services, sas.signed_resource_types,
      format_sas_datetime(sas.signed_expiry), sas.signed_version>>

\* AccountSasParameters::validate, validate_signature; now is Utc::now().
account_sas_validate(sas, req, resource_type, required_permission, now) ==
    IF ~contains(sas.signed_services, "b") THEN "AuthorizationServiceMismatch"
    ELSE IF ~contains(sas.signed_resource_types, resource_type)
    THEN "AuthorizationResourceTypeMismatch"
    ELSE IF ~contains(sas.signed_permissions, required_permission)
    THEN "AuthorizationPermissionMismatch"
    ELSE IF now > sas.signed_expiry THEN "AuthenticationFailed"
    ELSE IF get_account_key(req.account) = Nothing THEN "AuthorizationFailure"
    ELSE IF sas.signature # compute_signature(account_sas_string_to_sign(sas, req.account),
                                              get_account_key(req.account)[1])
    THEN "AuthenticationFailed"
    ELSE "OK"

\* BlobSasParameters::from_query
blob_sas_from_query(params) ==
    IF params.sr = Nothing \/ params.ss # Nothing THEN Nothing
    ELSE IF params.sv = Nothing \/ params.se = Nothing THEN Nothing
    ELSE IF parse_sas_datetime(params.se[1]) = Nothing THEN Nothing
    ELSE IF params.sig = Nothing THEN Nothing
    ELSE Some([signed_version |-> params.sv[1], signed_resource |-> params.sr[1],
               signed_permissions |-> unwrap_or(params.sp, <<>>),
               signed_expiry |-> parse_sas_datetime(params.se[1])[1],
               signature |-> params.sig[1]])

\* BlobSasParameters::build_string_to_sign, build_canonicalized_resource
blob_sas_string_to_sign(sas, req) ==
    <<sas.signed_permissions, format_sas_datetime(sas.signed_expiry),
      <<req.account, req.container,
        IF sas.signed_resource # "c" THEN req.blob ELSE Nothing>>,
      sas.signed_version, sas.signed_resource>>

\* BlobSasParameters::validate, validate_signature
blob_sas_validate(sas, req, required_permission, now) ==
    IF sas.signed_resource \notin {"c", "b", "bs", "bv"}
    THEN "AuthorizationResourceTypeMismatch"
    ELSE IF sas.signed_resource # "c" /\ req.blob = Nothing
    THEN "AuthorizationResourceTypeMismatch"
    ELSE IF ~contains(sas.signed_permissions, required_permission)
    THEN "AuthorizationPermissionMismatch"
    ELSE IF now > sas.signed_expiry THEN "AuthenticationFailed"
    ELSE IF get_account_key(req.account) = Nothing THEN "AuthorizationFailure"
    ELSE IF sas.signature # compute_signature(blob_sas_string_to_sign(sas, req),
                                              get_account_key(req.account)[1])
    THEN "AuthenticationFailed"
    ELSE "OK"

\* account_sas.rs: get_resource_type
get_resource_type(req) ==
    IF req.container = Nothing THEN "s"
    ELSE IF req.blob = Nothing THEN "c"
    ELSE "o"

\* account_sas.rs: get_required_permission
get_required_permission(req) ==
    IF req.method \in {"GET", "HEAD"} THEN "r"
    ELSE IF req.method = "PUT"
    THEN IF req.comp = Some("block") \/ req.comp = Some("appendblock") THEN "a"
         ELSE IF req.blob # Nothing /\ query_params_is_empty(req) THEN "c"
         ELSE "w"
    ELSE IF req.method = "DELETE" THEN "d"
    ELSE IF req.method = "POST" THEN "w"
    ELSE "r"

\* blob_sas.rs: get_blob_required_permission
get_blob_required_permission(req) ==
    IF req.method \in {"GET", "HEAD"} THEN "r"
    ELSE IF req.method = "PUT"
    THEN IF req.comp = Some("block") \/ req.comp = Some("appendblock") THEN "a"
         ELSE IF req.comp = Some("blocklist") THEN "w"
         ELSE IF req.copy_source # Nothing THEN "w"
         ELSE "c"
    ELSE IF req.method = "DELETE" THEN "d"
    ELSE IF req.method = "POST" THEN "w"
    ELSE "r"

(***************************************************************************)
(* auth/middleware.rs: authenticate                                        *)
(***************************************************************************)
authenticate(req, now) ==
    IF header(req.authorization) # Nothing
    THEN [err |-> validate_shared_key(req), is_anonymous |-> FALSE]
    ELSE IF account_sas_from_query(req.sas) # Nothing
    THEN [err |-> account_sas_validate(account_sas_from_query(req.sas)[1], req,
                                       get_resource_type(req),
                                       get_required_permission(req), now),
          is_anonymous |-> FALSE]
    ELSE IF blob_sas_from_query(req.sas) # Nothing
    THEN [err |-> blob_sas_validate(blob_sas_from_query(req.sas)[1], req,
                                    get_blob_required_permission(req), now),
          is_anonymous |-> FALSE]
    ELSE IF get_account_key(req.account) # Nothing
    THEN [err |-> "OK", is_anonymous |-> TRUE]
    ELSE [err |-> "AuthenticationFailed", is_anonymous |-> FALSE]

(***************************************************************************)
(* router.rs: container_handler, blob_handler and the routes they take     *)
(***************************************************************************)
\* The body, block id and metadata of the requests that carry one.
AuthBody == <<1>>
AuthBlockId == "x"
AuthMeta == "m1"

route_container_request(req) ==
    LET c == req.container[1]
    IN IF req.method = "PUT" /\ req.restype = Some("container") /\ req.comp = Nothing
       THEN create_container(c)
       ELSE IF req.method = "DELETE" /\ req.restype = Some("container") /\ req.comp = Nothing
       THEN delete_container(c, None)
       ELSE Reject("route_container_request", c, None, BaseSnapshot, "UnsupportedHttpVerb")

route_blob_request(req) ==
    LET c == req.container[1]
        b == req.blob[1]
    IN IF req.method = "GET" /\ req.comp = Nothing THEN download_blob(c, b, BaseSnapshot)
       ELSE IF req.method = "HEAD" /\ req.comp = Nothing
       THEN get_blob_properties(c, b, BaseSnapshot)
       ELSE IF req.method = "DELETE" /\ req.comp = Nothing
       THEN delete_blob(c, b, BaseSnapshot, None)
       ELSE IF req.method = "PUT" /\ req.comp = Nothing
       THEN IF req.copy_source # Nothing
            THEN copy_blob(c, b, None, c, b, BaseSnapshot, EmptyMeta)
            ELSE upload_block_blob(c, b, None, AuthBody, EmptyMeta)
       ELSE IF req.method = "PUT" /\ req.comp = Some("block")
       THEN stage_block(c, b, None, AuthBlockId, AuthBody)
       ELSE IF req.method = "PUT" /\ req.comp = Some("blocklist")
       THEN commit_block_list(c, b, None, <<>>, EmptyMeta)
       ELSE IF req.method = "PUT" /\ req.comp = Some("appendblock")
       THEN append_block(c, b, None, AuthBody)
       ELSE IF req.method = "PUT" /\ req.comp = Some("metadata")
       THEN set_blob_metadata(c, b, None, AuthMeta)
       ELSE Reject("route_blob_request", c, b, BaseSnapshot, "UnsupportedHttpVerb")

\* The task that reads the authenticated request.
AuthTask == CHOOSE t \in Tasks : TRUE

\* axum hands the request of the connection to the handler of its route.
receive(t, req) ==
    /\ served < MaxAuthRequests
    /\ tasks[t] = IdleTask
    /\ tasks' = [tasks EXCEPT ![t] = [pc |-> "request", request |-> req]]
    /\ UNCHANGED <<containers, blobs, blob_index, blocks, block_index, extents,
                   nextEtag, nextExtent, clock, last, served>>

\* container_handler and blob_handler: authenticate, then route.
handler(t) ==
    /\ tasks[t] # IdleTask
    /\ served < MaxAuthRequests
    /\ served' = MaxAuthRequests
    /\ LET req == tasks[t].request
           auth == authenticate(req, clock)
       IN IF auth.err # "OK"
          THEN Reject("authenticate", req.container[1], unwrap_or(req.blob, None),
                      BaseSnapshot, auth.err)
          ELSE IF req.blob = Nothing THEN route_container_request(req)
          ELSE route_blob_request(req)

(***************************************************************************)
(* The requests of one client of container c1: requests that need no       *)
(* token first, then one request whose authentication is followed.         *)
(***************************************************************************)
AuthAccounts == {DEFAULT_ACCOUNT, "account2"}
AuthKeys == {DEFAULT_ACCOUNT_KEY, "key2"}

Request(method, account, blob, restype, comp, copy_source) ==
    [method |-> method, account |-> account, container |-> Some(StoreContainer),
     blob |-> blob, restype |-> restype, comp |-> comp, copy_source |-> copy_source,
     authorization |-> Nothing, sas |-> NoSas]

\* Method and ?comp of the blob requests.
BlobLines ==
    {<<m, Nothing>> : m \in {"GET", "HEAD", "DELETE", "POST"}}
    \cup {<<"PUT", comp>> : comp \in Optional({"block", "blocklist", "appendblock",
                                                "metadata"})}

\* The requests before their credentials are added.
BareRequests ==
    {Request(l[1], a, Some(StoreBlob), Nothing, l[2], Nothing) :
        l \in BlobLines, a \in AuthAccounts}
    \cup {Request("PUT", a, Some(StoreBlob), Nothing, Nothing, Some("source")) :
             a \in AuthAccounts}
    \cup {Request(m, a, Nothing, Some("container"), Nothing, Nothing) :
             m \in {"PUT", "DELETE"}, a \in AuthAccounts}

\* The signatures a client may send with a request: those of its two
\* strings-to-sign under each key, and one that is no HMAC at all.
Forged == <<"forged">>
SharedKeySignatures(req) ==
    {compute_signature(sts, k) :
        sts \in {build_string_to_sign(req), build_string_to_sign_lite(req)},
        k \in AuthKeys}
    \cup {Forged}

\* "scheme account:signature"
Credentials(scheme, account, signature) ==
    << <<scheme>>, <<" ">>, <<account>>, <<":">>, signature >>

\* The Authorization headers: well-formed ones, one without credentials, one
\* without a signature, and one whose bytes are not visible ASCII.
AuthorizationHeaders(req) ==
    {Some([text |-> TRUE, words |-> Credentials(scheme, a, sig)]) :
        scheme \in {"SharedKey", "SharedKeyLite", "Bearer"}, a \in AuthAccounts,
        sig \in SharedKeySignatures(req)}
    \cup {Some([text |-> TRUE, words |-> << <<"SharedKey">> >>]),
          Some([text |-> TRUE, words |-> << <<"SharedKey">>, <<" ">>, <<req.account>> >>]),
          Some([text |-> FALSE, words |-> Credentials("SharedKey", req.account, Forged)])}

\* The values of se: no date, an instant before now (the clock reads 1) and
\* one after it.
SasDates == {<<"text", 0>>, <<"datetime", 0>>, <<"datetime", 2>>}
SasPermissions == {<<"r">>, <<"r", "w", "d", "a", "c">>}

\* The tokens without their signature: account SAS tokens, blob SAS tokens,
\* and tokens that name a service or a resource the request is not of.
AccountTokens ==
    {[NoSas EXCEPT !.ss = Some(<<"b">>), !.srt = Some(<<"c", "o">>), !.sv = v,
                   !.sp = p, !.se = e] :
        v \in Optional({"2021-08-06"}), p \in Optional(SasPermissions),
        e \in Optional(SasDates)}
    \cup {[NoSas EXCEPT !.ss = Some(ss), !.srt = srt, !.sv = Some("2021-08-06"),
                        !.sp = Some(<<"r", "w", "d", "a", "c">>),
                        !.se = Some(<<"datetime", 2>>)] :
             ss \in {<<"q">>, <<"b">>}, srt \in {Nothing, Some(<<"s">>)}}
BlobTokens ==
    {[NoSas EXCEPT !.sr = Some(r), !.sv = v, !.sp = p, !.se = e] :
        r \in {"b", "c"}, v \in Optional({"2021-08-06"}),
        p \in Optional(SasPermissions), e \in Optional(SasDates)}
    \cup {[NoSas EXCEPT !.sr = Some("x"), !.sv = Some("2021-08-06"),
                        !.sp = Some(<<"r", "w", "d", "a", "c">>),
                        !.se = Some(<<"datetime", 2>>)]}

\* The signature the holder of key k computes for the token on the request.
sas_signature(req, token, k) ==
    LET params == [token EXCEPT !.sig = Some(Forged)]
    IN IF account_sas_from_query(params) # Nothing
       THEN compute_signature(
                account_sas_string_to_sign(account_sas_from_query(params)[1],
                                           req.account), k)
       ELSE IF blob_sas_from_query(params) # Nothing
       THEN compute_signature(
                blob_sas_string_to_sign(blob_sas_from_query(params)[1], req), k)
       ELSE Forged

SasTokens(req) ==
    UNION {{[token EXCEPT !.sig = sig] :
               sig \in {Nothing, Some(Forged)}
                       \cup {Some(sas_signature(req, token, k)) : k \in AuthKeys}} :
           token \in AccountTokens \cup BlobTokens}

\* The requests: with an Authorization header, with a SAS token, with neither.
AuthRequests ==
    UNION {{[req EXCEPT !.authorization = h] : h \in AuthorizationHeaders(req)}
           \cup {[req EXCEPT !.sas = token] : token \in SasTokens(req)}
           \cup {req} :
           req \in BareRequests}

InitAuth ==
    /\ containers = Put(EmptyMap, StoreContainer, ContainerModel_new(1))
    /\ blobs = EmptyMap
    /\ blob_index = EmptyMap
    /\ blocks = EmptyMap
    /\ block_index = EmptyMap
    /\ extents = EmptyMap
    /\ nextEtag = 1
    /\ nextExtent = 0
    /\ clock = 1
    /\ last = Response("none", None, None, BaseSnapshot, "OK", 200, <<>>)
    /\ served = 0
    /\ tasks = [t \in Tasks |-> IdleTask]

\* A request that needs no token is served before the authenticated one.
AcceptBefore ==
    /\ tasks[AuthTask] = IdleTask
    /\ served < MaxAuthRequests - 1
    /\ served' = served + 1

NextAuth ==
    \/ \E body \in Bodies :
          AcceptBefore /\ upload_block_blob(StoreContainer, StoreBlob, None, body, EmptyMeta)
    \/ \E id \in BlockIds :
          AcceptBefore /\ stage_block(StoreContainer, StoreBlob, None, id, AuthBody)
    \/ \E req \in AuthRequests : receive(AuthTask, req)
    \/ handler(AuthTask)

SpecAuth == InitAuth /\ [][NextAuth]_vars


\* The request the task has read, and whether it has been answered.
Received == tasks[AuthTask] # IdleTask
TheRequest == tasks[AuthTask].request
Handled == Received /\ served = MaxAuthRequests
ReachedHandler == Handled /\ last.op # "authenticate"
RejectedWith(code) == Handled /\ last.op = "authenticate" /\ last.code = code

\* The Authorization header as it was sent: its account and signature when
\* it reads "scheme account:signature", and the signature its scheme and the
\* key of the declared account give for the request.
SentWords == TheRequest.authorization[1].words
SentCredentials == Len(SentWords) = 5
DeclaredAccount == SentWords[3][1]
SuppliedSignature == SentWords[5]
SharedKeyScheme == SentWords[1][1] \in {"SharedKey", "SharedKeyLite"}
RecomputedSignatures ==
    {compute_signature(IF SentWords[1][1] = "SharedKeyLite"
                       THEN build_string_to_sign_lite(TheRequest)
                       ELSE build_string_to_sign(TheRequest), k[1]) :
        k \in {get_account_key(DeclaredAccount)} \ {Nothing}}
SharedKeyChecked ==
    /\ ReachedHandler =>
          /\ SentCredentials
          /\ DeclaredAccount = TheRequest.account
          /\ SuppliedSignature \in RecomputedSignatures
    /\ (SentCredentials /\ SharedKeyScheme /\ DeclaredAccount # TheRequest.account)
          => RejectedWith("AuthorizationFailure")
    /\ (SentCredentials /\ SharedKeyScheme /\ DeclaredAccount = TheRequest.account
           /\ RecomputedSignatures # {}
           /\ SuppliedSignature \notin RecomputedSignatures)
          => RejectedWith("AuthenticationFailed")

\* C28: a request that carries an Authorization header reaches a handler only
\* if the account the header declares is the account of the URL path
\* (otherwise AuthorizationFailure) and the signature recomputed with that
\* account's key is the one supplied (otherwise AuthenticationFailed); a
\* request that authentication rejects leaves the stores as they were.
C28_SharedKeyGuardsHandlers ==
    [][(~Handled /\ Handled' /\ TheRequest.authorization # Nothing)
          => /\ SharedKeyChecked'
             /\ (last'.op = "authenticate" => storeVars' = storeVars)]_vars

\* The SAS token of the request: whether it is one, of which kind, and
\* whether every required field is there, unexpired and rightly signed.
AccountSasSent == TheRequest.sas.ss # Nothing /\ TheRequest.sas.srt # Nothing
BlobSasSent == TheRequest.sas.sr # Nothing /\ TheRequest.sas.ss = Nothing
SoundToken ==
    LET q == TheRequest.sas
    IN /\ q.sig # Nothing /\ q.se # Nothing /\ q.sp # Nothing /\ q.sv # Nothing
       /\ parse_sas_datetime(q.se[1]) # Nothing
       /\ parse_sas_datetime(q.se[1])[1] >= clock
       /\ q.sig[1] = sas_signature(TheRequest, q, DEFAULT_ACCOUNT_KEY)

\* C29: a request is served as anonymous only when it carries no
\* authorization material; a query with ss and srt is validated as an account
\* SAS and one with sr and no ss as a blob SAS, so that a token that is
\* expired, wrongly signed, or lacks sig, se, sp or sv (or has a malformed
\* one) is rejected.
C29_NoAnonymousFallback ==
    (Handled /\ TheRequest.authorization = Nothing)
       => /\ (ReachedHandler /\ authenticate(TheRequest, clock).is_anonymous)
                => TheRequest.sas = NoSas
          /\ ((AccountSasSent \/ BlobSasSent) /\ ReachedHandler) => SoundToken
          /\ ((AccountSasSent \/ BlobSasSent) /\ ~SoundToken) => last.op = "authenticate"

\* The permission a SAS token must hold for the request, as the table of the
\* operations gives it; a request has no query when it has no parameter
\* besides those of its token.
RequiredPermission(req) ==
    IF req.method \in {"GET", "HEAD"} THEN "r"
    ELSE IF req.method = "DELETE" THEN "d"
    ELSE IF req.method = "POST" THEN "w"
    ELSE IF req.comp \in {Some("block"), Some("appendblock")} THEN "a"
    ELSE IF req.comp = Some("blocklist") \/ req.copy_source # Nothing THEN "w"
    ELSE IF req.blob # Nothing /\ req.comp = Nothing /\ req.restype = Nothing THEN "c"
    ELSE "w"

\* C30: the permission an account SAS and a blob SAS must hold is r for GET
\* and HEAD, d for DELETE, a for PUT comp=block|appendblock, w for PUT
\* comp=blocklist or with x-ms-copy-source, c for PUT on a blob with no query,
\* w for any other PUT and for POST, and the two validations ask the same
\* permission of the same request.
C30_RequiredPermission ==
    (Received /\ TheRequest.authorization = Nothing)
       => /\ account_sas_from_query(TheRequest.sas) # Nothing
                => get_required_permission(TheRequest) = RequiredPermission(TheRequest)
          /\ blob_sas_from_query(TheRequest.sas) # Nothing
                => get_blob_required_permission(TheRequest)
                      = RequiredPermission(TheRequest)
          /\ (account_sas_from_query(TheRequest.sas) # Nothing
                \/ blob_sas_from_query(TheRequest.sas) # Nothing)
                => get_required_permission(TheRequest)
                      = get_blob_required_permission(TheRequest)


(***************************************************************************)
(* storage/extent.rs: MemoryExtentStore::with_limit, write and delete, one *)
(* atomic access at a time; the worker threads of the runtime run the      *)
(* calls of different requests in parallel.                                *)
(***************************************************************************)
\* The limit the store was made with.
size_limit == 2

ExtentIdle == [pc |-> "idle"]

\* MemoryExtentStore::with_limit(size_limit)
InitExtent ==
    /\ containers = EmptyMap
    /\ blobs = EmptyMap
    /\ blob_index = EmptyMap
    /\ blocks = EmptyMap
    /\ block_index = EmptyMap
    /\ extents = [shards |-> EmptyMap, current_size |-> 0]
    /\ nextEtag = 0
    /\ nextExtent = 0
    /\ clock = 0
    /\ last = Response("none", None, None, BaseSnapshot, "OK", 200, <<>>)
    /\ served = 0
    /\ tasks = [t \in Tasks |-> ExtentIdle]

\* write: current_size.load
extent_write_load(t, data) ==
    /\ tasks[t].pc = "idle"
    /\ served < MaxExtentOps
    /\ served' = served + 1
    /\ tasks' = [tasks EXCEPT ![t] = [pc |-> "loaded", data |-> data,
                                      current |-> extents.current_size]]
    /\ UNCHANGED <<containers, blobs, blob_index, blocks, block_index, extents,
                   nextEtag, nextExtent, clock, last>>

\* write: the check against the limit, then shard.insert under a new id
extent_write_insert(t) ==
    /\ tasks[t].pc = "loaded"
    /\ IF size_limit > 0 /\ tasks[t].current + Len(tasks[t].data) > size_limit
       THEN /\ tasks' = [tasks EXCEPT ![t] = ExtentIdle]
            /\ last' = Response("extent_write", None, None, BaseSnapshot,
                                "RequestBodyTooLarge",
                                status_code("RequestBodyTooLarge"), <<>>)
            /\ UNCHANGED <<extents, nextExtent>>
       ELSE /\ tasks' = [tasks EXCEPT ![t].pc = "inserted"]
            /\ nextExtent' = nextExtent + 1
            /\ extents' = [extents EXCEPT
                              !.shards = extent_write(@, nextExtent + 1, tasks[t].data)]
            /\ UNCHANGED last
    /\ UNCHANGED <<containers, blobs, blob_index, blocks, block_index,
                   nextEtag, clock, served>>

\* write: current_size.fetch_add, and the chunk is returned
extent_write_fetch_add(t) ==
    /\ tasks[t].pc = "inserted"
    /\ extents' = [extents EXCEPT !.current_size = @ + Len(tasks[t].data)]
    /\ tasks' = [tasks EXCEPT ![t] = ExtentIdle]
    /\ last' = [Response("extent_write", None, None, BaseSnapshot, "OK", 200, <<>>)
                   EXCEPT !.data = tasks[t].data]
    /\ UNCHANGED <<containers, blobs, blob_index, blocks, block_index,
                   nextEtag, nextExtent, clock, served>>

\* delete: shard.remove
extent_delete_remove(t, id) ==
    /\ tasks[t].pc = "idle"
    /\ served < MaxExtentOps
    /\ served' = served + 1
    /\ IF id \in DOMAIN extents.shards
       THEN /\ tasks' = [tasks EXCEPT ![t] = [pc |-> "removed",
                                              data |-> extents.shards[id]]]
            /\ extents' = [extents EXCEPT !.shards = extent_delete(@, id)]
       ELSE UNCHANGED <<tasks, extents>>
    /\ UNCHANGED <<containers, blobs, blob_index, blocks, block_index,
                   nextEtag, nextExtent, clock, last>>

\* delete: current_size.fetch_sub
extent_delete_fetch_sub(t) ==
    /\ tasks[t].pc = "removed"
    /\ extents' = [extents EXCEPT !.current_size = @ - Len(tasks[t].data)]
    /\ tasks' = [tasks EXCEPT ![t] = ExtentIdle]
    /\ UNCHANGED <<containers, blobs, blob_index, blocks, block_index,
                   nextEtag, nextExtent, clock, last, served>>

\* The bodies written and the ids deleted.
ExtentBodies == {<<1>>, <<2, 3>>}
ExtentIds == 1..MaxExtentOps

NextExtent ==
    \/ \E t \in Tasks, data \in ExtentBodies : extent_write_load(t, data)
    \/ \E t \in Tasks : extent_write_insert(t)
    \/ \E t \in Tasks : extent_write_fetch_add(t)
    \/ \E t \in Tasks, id \in ExtentIds : extent_delete_remove(t, id)
    \/ \E t \in Tasks : extent_delete_fetch_sub(t)

SpecExtent == InitExtent /\ [][NextExtent]_vars

\* The bytes the shards hold.
RECURSIVE TotalBytes(_)
TotalBytes(shards) ==
    IF DOMAIN shards = {} THEN 0
    ELSE LET id == CHOOSE x \in DOMAIN shards : TRUE
         IN Len(shards[id]) + TotalBytes(Remove(shards, id))

\* C31: with a size limit configured the bytes stored never exceed it,
\* whatever the interleaving of the writes and deletes; a write that would
\* take the total above the limit fails with RequestBodyTooLarge and stores
\* nothing.
C31_SizeLimitHolds == TotalBytes(extents.shards) <= size_limit


\* C32: the type of a blob never changes after its creation: no request on
\* a blob that exists, short of its deletion, leaves a blob of another type
\* under its key.
C32_BlobTypeImmutable ==
    [][\A k \in (DOMAIN blobs) \cap (DOMAIN blobs') :
          blobs'[k].blob_type = blobs[k].blob_type]_vars


(***************************************************************************)
(* handlers/block_blob.rs: upload_block_blob served concurrently, one call *)
(* of a store at a time, on blob names that differ from task to task; a    *)
(* list-blobs of the container when every upload has been answered.        *)
(***************************************************************************)
UploadIdle == [pc |-> "idle", name |-> <<>>, body |-> <<>>, etag |-> 0, extent |-> 0,
               status |-> 0]
UploadNames == NamesUpTo(MaxNameLen - 1) \ {<<>>}
UploadBodies == {<<>>, <<1>>}

InitUploads ==
    /\ containers = Put(EmptyMap, StoreContainer, ContainerModel_new(1))
    /\ blobs = EmptyMap
    /\ blob_index = EmptyMap
    /\ blocks = EmptyMap
    /\ block_index = EmptyMap
    /\ extents = EmptyMap
    /\ nextEtag = 1
    /\ nextExtent = 0
    /\ clock = 0
    /\ last = Response("none", None, <<>>, BaseSnapshot, "OK", 200, <<>>)
    /\ served = 0
    /\ tasks = [t \in Tasks |-> UploadIdle]

\* No listing has been answered yet.
Uploading == last.op = "none"

\* "if !metadata.container_exists(..) { return Err(ContainerNotFound) }"
upload_container_exists(t, name, body) ==
    /\ Uploading
    /\ tasks[t].pc = "idle"
    /\ \A u \in Tasks : tasks[u].name # name
    /\ tasks' = [tasks EXCEPT ![t] =
                    IF container_exists(StoreContainer)
                    THEN [UploadIdle EXCEPT !.pc = "get_blob", !.name = name,
                                            !.body = body]
                    ELSE [UploadIdle EXCEPT !.pc = "done", !.name = name,
                                            !.status = status_code("ContainerNotFound")]]
    /\ UNCHANGED <<containers, blobs, blob_index, blocks, block_index, extents,
                   nextEtag, nextExtent, clock, last, served>>

\* "if let Ok(existing_blob) = metadata.get_blob(..) { check_blob_lease(..)? }"
upload_get_blob(t) ==
    /\ tasks[t].pc = "get_blob"
    /\ LET err == check_existing_lease(StoreContainer, tasks[t].name, None)
       IN tasks' = [tasks EXCEPT ![t] =
                       IF err = "OK" THEN [@ EXCEPT !.pc = "write"]
                       ELSE [@ EXCEPT !.pc = "done", !.status = status_code(err)]]
    /\ UNCHANGED <<containers, blobs, blob_index, blocks, block_index, extents,
                   nextEtag, nextExtent, clock, last, served>>

\* "extents.write(body)" of a body that is not empty, and BlobModel::new
upload_write(t) ==
    /\ tasks[t].pc = "write"
    /\ LET written == IF Len(tasks[t].body) > 0 THEN 1 ELSE 0
       IN /\ nextExtent' = nextExtent + written
          /\ extents' = IF written = 1
                        THEN extent_write(extents, nextExtent + 1, tasks[t].body)
                        ELSE extents
          /\ nextEtag' = nextEtag + 1
          /\ tasks' = [tasks EXCEPT ![t].pc = "create_blob", ![t].etag = nextEtag + 1,
                                    ![t].extent = nextExtent + 1]
    /\ UNCHANGED <<containers, blobs, blob_index, blocks, block_index, clock, last,
                   served>>

\* create_blob: "self.blob_index.entry(index_key).or_default().insert(blob_name)"
upload_create_blob_entry(t) ==
    /\ tasks[t].pc = "create_blob"
    /\ blob_index' = create_blob_index(blob_index, StoreContainer, tasks[t].name)
    /\ tasks' = [tasks EXCEPT ![t].pc = "create_blob_insert"]
    /\ UNCHANGED <<containers, blobs, blocks, block_index, extents, nextEtag,
                   nextExtent, clock, last, served>>

\* create_blob: "self.blobs.insert(key, blob)"
upload_create_blob_insert(t) ==
    /\ tasks[t].pc = "create_blob_insert"
    /\ blobs' = create_blob_blobs(blobs, StoreContainer, tasks[t].name, BaseSnapshot,
                    upload_block_blob_model(tasks[t].body, EmptyMeta, tasks[t].etag,
                                            tasks[t].extent))
    /\ tasks' = [tasks EXCEPT ![t].pc = "delete_staged_blocks"]
    /\ UNCHANGED <<containers, blob_index, blocks, block_index, extents, nextEtag,
                   nextExtent, clock, last, served>>

\* "metadata.delete_staged_blocks(..)" of a blob for which no task stages a
\* block, and the response 201 Created
upload_delete_staged_blocks(t) ==
    /\ tasks[t].pc = "delete_staged_blocks"
    /\ block_index' = delete_staged_blocks_index(block_index, StoreContainer, tasks[t].name)
    /\ blocks' = delete_staged_blocks_blocks(blocks, block_index, StoreContainer,
                                             tasks[t].name)
    /\ tasks' = [tasks EXCEPT ![t].pc = "done", ![t].status = 201]
    /\ UNCHANGED <<containers, blobs, blob_index, extents, nextEtag, nextExtent,
                   clock, last, served>>

\* The list-blobs request that follows the uploads: no prefix, delimiter,
\* marker or maxresults.
ListAll ==
    [prefix |-> Nothing, delimiter |-> Nothing, marker |-> Nothing,
     maxresults |-> Nothing, include_snapshots |-> FALSE]

list_uploads ==
    /\ Uploading
    /\ \A t \in Tasks : tasks[t].pc \in {"idle", "done"}
    /\ served' = served + 1
    /\ list_blobs(StoreContainer, ListAll)

NextUploads ==
    \/ \E t \in Tasks, name \in UploadNames, body \in UploadBodies :
          upload_container_exists(t, name, body)
    \/ \E t \in Tasks : upload_get_blob(t)
    \/ \E t \in Tasks : upload_write(t)
    \/ \E t \in Tasks : upload_create_blob_entry(t)
    \/ \E t \in Tasks : upload_create_blob_insert(t)
    \/ \E t \in Tasks : upload_delete_staged_blocks(t)
    \/ list_uploads

SpecUploads == InitUploads /\ [][NextUploads]_vars

\* The names the answered uploads were for.
Uploads == {t \in Tasks : tasks[t].pc = "done"}
UploadedNames == {tasks[t].name : t \in Uploads}

is_ascii_lowercase(ch) ==
    ch \in {"a", "b", "c", "d", "e", "f", "g", "h", "i", "j", "k", "l", "m", "n",
            "o", "p", "q", "r", "s", "t", "u", "v", "w", "x", "y", "z"}
is_ascii_uppercase(ch) ==
    ch \in {"A", "B", "C", "D", "E", "F", "G", "H", "I", "J", "K", "L", "M", "N",
            "O", "P", "Q", "R", "S", "T", "U", "V", "W", "X", "Y", "Z"}
is_ascii_digit(ch) == ch \in {"0", "1", "2", "3", "4", "5", "6", "7", "8", "9"}
is_ascii_alphanumeric(ch) ==
    is_ascii_lowercase(ch) \/ is_ascii_uppercase(ch) \/ is_ascii_digit(ch)

\* The special containers.
RootName == <<"$", "r", "o", "o", "t">>
LogsName == <<"$", "l", "o", "g", "s">>
WebName == <<"$", "w", "e", "b">>

validate_container_name(name) ==
    IF Len(name) < 3 \/ Len(name) > 63 THEN "InvalidResourceName"
    ELSE IF ~is_ascii_alphanumeric(name[1]) THEN "InvalidResourceName"
    ELSE IF name # RootName /\ name # LogsName /\ name # WebName
    THEN IF \E i \in 1..Len(name) :
               ~is_ascii_lowercase(name[i]) /\ ~is_ascii_digit(name[i]) /\ name[i] # "-"
         THEN "InvalidResourceName"
         ELSE IF find(name, <<"-", "-">>) # Nothing THEN "InvalidResourceName"
         ELSE "OK"
    ELSE "OK"

\* PUT /{container}?restype=container
create_container_named(name) ==
    IF validate_container_name(name) # "OK"
    THEN Reject("create_container", name, None, BaseSnapshot,
                validate_container_name(name))
    ELSE create_container(name)

\* The names of the requests: every name of a few letters over a lowercase
\* letter, an uppercase letter, a digit, the hyphen, the underscore and the
\* dollar sign, the special names, and names of 62 to 65 letters.
NameChars == {"a", "B", "1", "-", "_", "$"}
LongName(n) == [i \in 1..n |-> "a"]
ContainerNames ==
    (UNION {[1..k -> NameChars] : k \in 1..MaxShortName})
    \cup {RootName, LogsName, WebName}
    \cup {LongName(n) : n \in 62..65}
    \cup {[LongName(63) EXCEPT ![n] = "-"] : n \in {1, 2, 63}}

NextNames ==
    \E name \in ContainerNames :
       /\ served < MaxNameRequests
       /\ last.status < 300
       /\ served' = served + 1
       /\ create_container_named(name)

SpecNames == Init /\ [][NextNames]_vars

\* The names the validation is to accept.
NameRule(name) ==
    \/ name \in {RootName, LogsName, WebName}
    \/ /\ Len(name) >= 3 /\ Len(name) <= 63
       /\ is_ascii_alphanumeric(name[1])
       /\ \A i \in 1..Len(name) :
             is_ascii_lowercase(name[i]) \/ is_ascii_digit(name[i]) \/ name[i] = "-"
       /\ \A i \in 1..(Len(name) - 1) : ~(name[i] = "-" /\ name[i + 1] = "-")

\* C34: create-container accepts a name exactly when it has 3 to 63
\* characters, starts with a letter or digit, holds only lowercase letters,
\* digits and hyphens and no two hyphens in a row, or is $root, $logs or
\* $web; any other name is rejected with InvalidResourceName and no
\* container is created.
C34_ContainerNameRule ==
    [][last'.op = "create_container"
          => IF NameRule(last'.c)
             THEN last'.code # "InvalidResourceName"
             ELSE last'.code = "InvalidResourceName" /\ containers' = containers]_vars


(***************************************************************************)
(* Deleting a container and creating it again.                             *)
(***************************************************************************)
\* The blob records stored under container c, snapshots included.
StoredUnder(c) == {k \in DOMAIN blobs : k[1] = c}

\* C35: after a successful delete-container nothing of the container stays
\* reachable: when a container of the same name is created again, it holds no
\* blob and no snapshot, and a get of any blob name answers BlobNotFound.
C35_DeletedContainerIsEmpty ==
    [][\A c \in Containers :
          (last'.op = "create_container" /\ last'.c = c /\ last'.status = 201)
             => /\ StoredUnder(c)' = {}
                /\ \A b \in BlobNames, s \in Snapshots :
                      get_blob(c, b, s)'.err = "BlobNotFound"]_vars


(***************************************************************************)
(* Appends to one append blob, one after the other or concurrently.        *)
(***************************************************************************)
\* The appends answered 201, and the x-ms-blob-append-offset of each: the
\* content_length of the copy it read.
Appended == {t \in Returned : tasks[t].op = "append_block" /\ tasks[t].status = 201}
append_offset(t) == tasks[t].blob.content_length - Len(tasks[t].body)
\* Every request so far is an append, and every one has been answered.
OnlyAppends == \A t \in Tasks : tasks[t].op \in {None, "append_block"}
RaceQuiet == \A t \in Tasks : tasks[t].pc \in {"idle", "done"}

\* The chunks of the blob are the bodies of the appends ts in some order.
HoldsBodiesOf(blob, ts) ==
    /\ Len(blob.extent_chunks) = Cardinality(ts)
    /\ \E order \in [1..Len(blob.extent_chunks) -> ts] :
          /\ \A i, j \in DOMAIN order : order[i] = order[j] => i = j
          /\ \A i \in DOMAIN order :
                /\ blob.extent_chunks[i].id \in DOMAIN extents
                /\ extents[blob.extent_chunks[i].id] = tasks[order[i]].body

\* C36: once the append-block requests on an append blob have all been
\* answered 201, the blob holds all their bodies in some order, its
\* content_length is the sum of their sizes, its committed_block_count is
\* their number and the append offsets they were given are pairwise distinct.
C36_NoAppendLost ==
    LET blob == blobs[<<StoreContainer, StoreBlob, BaseSnapshot>>]
    IN (OnlyAppends /\ RaceQuiet) =>
          /\ HoldsBodiesOf(blob, Appended)
          /\ blob.content_length = SumSeq([i \in 1..Len(blob.extent_chunks) |->
                                              blob.extent_chunks[i].count])
          /\ Cardinality(Appended) > 0 =>
                blob.committed_block_count = Some(Cardinality(Appended))
          /\ \A t, u \in Appended : t # u => append_offset(t) # append_offset(u)


(***************************************************************************)
(* The life of a blob lease.                                               *)
(***************************************************************************)
\* The requests that may end the lease of blob (c, b): a lease action on the
\* blob, the delete of the blob and the delete of its container.
EndsLease(resp, c, b) ==
    \/ resp.op = "blob_lease" /\ resp.c = c /\ resp.b = b
    \/ resp.op = "delete_blob" /\ resp.c = c /\ resp.b = b /\ resp.s = BaseSnapshot
    \/ resp.op = "delete_container" /\ resp.c = c

\* C37: a lease acquired on a blob stays in force until it is released,
\* broken, expires or the blob is deleted: no other successful request, an
\* upload, commit-block-list or copy by the lease holder included, leaves the
\* blob without its lease.
C37_LeaseStaysInForce ==
    [][\A c \in Containers, b \in BlobNames :
          (/\ IsLeased(c, b)
           /\ ~lease_expired(blobs[<<c, b, BaseSnapshot>>], clock')
           /\ last'.status < 300
           /\ ~EndsLease(last', c, b))
          => /\ IsLeased(c, b)'
             /\ blobs'[<<c, b, BaseSnapshot>>].lease_id
                   = blobs[<<c, b, BaseSnapshot>>].lease_id]_vars


(***************************************************************************)
(* delete_blob served beside requests that are in flight: set_blob_metadata *)
(* gets the blob, changes its copy and stores it with update_blob;         *)
(* delete_blob gets the blob, removes the record and its index entry and   *)
(* deletes the extents; upload_block_blob looks at the existing blob and   *)
(* stores a new one.  The store holds container c1 and block blob c1/b1.   *)
(***************************************************************************)
InFlightIdle ==
    [pc |-> "idle", op |-> None, meta |-> "m0", body |-> <<>>,
     blob |-> BlobModel_new("BlockBlob", 0, 0), code |-> None, status |-> 0]

InitInFlight ==
    /\ containers = Put(EmptyMap, StoreContainer, ContainerModel_new(1))
    /\ blobs = Put(EmptyMap, <<StoreContainer, StoreBlob, BaseSnapshot>>,
                   upload_block_blob_model(<<1>>, "m0", 2, 1))
    /\ blob_index = Put(EmptyMap, StoreContainer, {StoreBlob})
    /\ blocks = EmptyMap
    /\ block_index = EmptyMap
    /\ extents = Put(EmptyMap, 1, <<1>>)
    /\ nextEtag = 2
    /\ nextExtent = 1
    /\ clock = 0
    /\ last = Response("none", None, None, BaseSnapshot, "OK", 200, <<>>)
    /\ served = 0
    /\ tasks = [t \in Tasks |-> InFlightIdle]

InFlightOps == {"set_blob_metadata", "delete_blob", "upload_block_blob"}
InFlightStore == UNCHANGED <<containers, blocks, block_index, clock, last, served>>

\* A request arrives and is routed to its handler.
inflight_begin(t, op, meta, body) ==
    /\ tasks[t].pc = "idle"
    /\ op # "upload_block_blob" => body = <<>>
    /\ op = "delete_blob" => meta = "m0"
    /\ tasks' = [tasks EXCEPT ![t] = [InFlightIdle EXCEPT !.pc = "get_blob", !.op = op,
                                         !.meta = meta, !.body = body]]
    /\ UNCHANGED <<blobs, blob_index, extents, nextEtag, nextExtent>>
    /\ InFlightStore

\* "metadata.get_blob(..).await" and the lease check: set_blob_metadata and
\* delete_blob fail when the blob is not there, upload_block_blob goes on.
inflight_get_blob(t) ==
    /\ tasks[t].pc = "get_blob"
    /\ LET r == get_blob(StoreContainer, StoreBlob, BaseSnapshot)
           err == IF tasks[t].op = "upload_block_blob"
                  THEN check_existing_lease(StoreContainer, StoreBlob, None)
                  ELSE get_and_check_lease(StoreContainer, StoreBlob, BaseSnapshot, None)
       IN tasks' = [tasks EXCEPT ![t] =
                       IF err # "OK"
                       THEN [@ EXCEPT !.pc = "done", !.code = err,
                                      !.status = status_code(err)]
                       ELSE [@ EXCEPT !.pc = tasks[t].op,
                                      !.blob = IF r.err = "OK" THEN r.blob ELSE @]]
    /\ UNCHANGED <<blobs, blob_index, extents, nextEtag, nextExtent>>
    /\ InFlightStore

\* set_blob_metadata: "metadata.update_blob(blob.clone()).await?" and the
\* response.
inflight_update_blob(t) ==
    /\ tasks[t].pc = "set_blob_metadata"
    /\ nextEtag' = nextEtag + 1
    /\ blobs' = update_blob_blobs(blobs, StoreContainer, StoreBlob, BaseSnapshot,
                    set_blob_metadata_model(tasks[t].blob, tasks[t].meta, nextEtag + 1))
    /\ tasks' = [tasks EXCEPT ![t] = [@ EXCEPT !.pc = "done", !.code = "OK",
                                                !.status = 200]]
    /\ UNCHANGED <<blob_index, extents, nextExtent>>
    /\ InFlightStore

\* delete_blob: "let removed = self.blobs.remove(&key)".
inflight_delete_remove(t) ==
    /\ tasks[t].pc = "delete_blob"
    /\ blobs' = delete_blob_blobs(blobs, StoreContainer, StoreBlob, BaseSnapshot)
    /\ tasks' = [tasks EXCEPT ![t] =
                    [@ EXCEPT !.pc = "delete_blob_index",
                              !.code = delete_blob_result(
                                           blobs, <<StoreContainer, StoreBlob,
                                                    BaseSnapshot>>)]]
    /\ UNCHANGED <<blob_index, extents, nextEtag, nextExtent>>
    /\ InFlightStore

\* delete_blob: the index entry, the result of the store, then
\* "extents.delete(&chunk.id)" for the chunks of the copy and the response.
inflight_delete_finish(t) ==
    /\ tasks[t].pc = "delete_blob_index"
    /\ blob_index' = delete_blob_index(blob_index, StoreContainer, StoreBlob, BaseSnapshot)
    /\ IF tasks[t].code # "OK"
       THEN /\ tasks' = [tasks EXCEPT ![t] = [@ EXCEPT !.pc = "done",
                                                      !.status = status_code(tasks[t].code)]]
            /\ UNCHANGED extents
       ELSE /\ tasks' = [tasks EXCEPT ![t] = [@ EXCEPT !.pc = "done", !.status = 202]]
            /\ extents' = delete_blob_extents(extents, tasks[t].blob)
    /\ UNCHANGED <<blobs, nextEtag, nextExtent>>
    /\ InFlightStore

\* upload_block_blob: the extent, the new BlobModel, create_blob and the
\* response (no block is staged here).
inflight_create_blob(t) ==
    /\ tasks[t].pc = "upload_block_blob"
    /\ nextEtag' = nextEtag + 1
    /\ IF Len(tasks[t].body) > 0
       THEN /\ nextExtent' = nextExtent + 1
            /\ extents' = extent_write(extents, nextExtent + 1, tasks[t].body)
       ELSE UNCHANGED <<nextExtent, extents>>
    /\ blob_index' = create_blob_index(blob_index, StoreContainer, StoreBlob)
    /\ blobs' = create_blob_blobs(blobs, StoreContainer, StoreBlob, BaseSnapshot,
                    upload_block_blob_model(tasks[t].body, tasks[t].meta,
                                            nextEtag + 1, nextExtent + 1))
    /\ tasks' = [tasks EXCEPT ![t] = [@ EXCEPT !.pc = "done", !.code = "OK",
                                                !.status = 201]]
    /\ InFlightStore

NextInFlight ==
    \/ \E t \in Tasks, op \in InFlightOps, meta \in Metas, body \in UploadBodies :
          inflight_begin(t, op, meta, body)
    \/ \E t \in Tasks : inflight_get_blob(t)
    \/ \E t \in Tasks : inflight_update_blob(t)
    \/ \E t \in Tasks : inflight_delete_remove(t)
    \/ \E t \in Tasks : inflight_delete_finish(t)
    \/ \E t \in Tasks : inflight_create_blob(t)

SpecInFlight == InitInFlight /\ [][NextInFlight]_vars

\* A delete-blob was answered 202, and no request that creates the blob was
\* received.
Deleted == \E t \in Tasks : tasks[t].pc = "done" /\ tasks[t].op = "delete_blob" /\ tasks[t].status = 202
NoneCreates == \A t \in Tasks : tasks[t].op # "upload_block_blob"

\* C38: once delete-blob has answered 202 the blob stays absent until a
\* request creates it again: a get answers BlobNotFound and the listing
\* omits the blob, whatever read-modify-write request was in flight.
C38_DeleteNotUndone ==
    (Deleted /\ NoneCreates)
       => /\ get_blob(StoreContainer, StoreBlob, BaseSnapshot).err = "BlobNotFound"
          /\ ~(/\ StoreBlob \in blob_index[StoreContainer]
               /\ <<StoreContainer, StoreBlob, BaseSnapshot>> \in DOMAIN blobs)


(***************************************************************************)
(* Listing container c1 page by page.  Blobs are uploaded and a snapshot   *)
(* is taken; then a client lists the container, each request carrying the  *)
(* NextMarker of the response before, and collects the Blob and BlobPrefix *)
(* entries of the pages.  The container is left alone while it is listed.  *)
(***************************************************************************)
PageParams ==
    [prefix : Optional(NamesUpTo(1)),
     delimiter : Optional({<<ch>> : ch \in Chars}),
     marker : {Nothing},
     maxresults : {Some(n) : n \in 1..MaxResults},
     include_snapshots : BOOLEAN]

\* The client: the parameters it lists with and the entries it has got.
NotListing ==
    [paging |-> FALSE,
     params |-> [prefix |-> Nothing, delimiter |-> Nothing, marker |-> Nothing,
                 maxresults |-> Some(1), include_snapshots |-> FALSE],
     blobs |-> <<>>, prefixes |-> <<>>]

InitPages ==
    /\ containers = Put(EmptyMap, StoreContainer, ContainerModel_new(1))
    /\ blobs = EmptyMap
    /\ blob_index = EmptyMap
    /\ blocks = EmptyMap
    /\ block_index = EmptyMap
    /\ extents = EmptyMap
    /\ nextEtag = 1
    /\ nextExtent = 0
    /\ clock = 0
    /\ last = Response("none", None, <<>>, BaseSnapshot, "OK", 200, <<>>)
    /\ served = 0
    /\ tasks = NotListing

AcceptStored == ~tasks.paging /\ last.status < 300 /\ served < MaxStored /\ served' = served + 1

\* GET /{container}?restype=container&comp=list[&marker=..]: the handler, and
\* the client that keeps the entries of the page.
list_blobs_page(params) ==
    LET r == store_list_blobs(containers, blobs, blob_index, StoreContainer,
                              params.prefix, params.delimiter, params.marker,
                              Some(unwrap_or(params.maxresults, 5000)),
                              params.include_snapshots)
    IN /\ last' = [Response("list_blobs", StoreContainer, <<>>, BaseSnapshot,
                            "OK", 200, <<>>)
                      EXCEPT !.listing = serialize_blob_list(r, params)]
       /\ tasks' = [paging |-> TRUE, params |-> params,
                    blobs |-> tasks.blobs \o r.blobs,
                    prefixes |-> tasks.prefixes \o r.prefixes]
       /\ UNCHANGED <<containers, blobs, blob_index, blocks, block_index,
                      extents, nextEtag, nextExtent, clock, served>>

\* The first request of a listing.
first_page(params) ==
    /\ ~tasks.paging
    /\ last.status < 300
    /\ list_blobs_page(params)

\* The next request: the same parameters, the marker the last response gave.
next_page ==
    /\ tasks.paging
    /\ last.listing[1].next_marker # Nothing
    /\ list_blobs_page([tasks.params EXCEPT !.marker = last.listing[1].next_marker])

NextPages ==
    \/ \E name \in ListNames :
          AcceptStored /\ upload_block_blob(StoreContainer, name, None, <<>>, EmptyMeta)
    \/ \E name \in ListNames :
          AcceptStored /\ create_snapshot(StoreContainer, name, None, EmptyMeta)
    \/ \E params \in PageParams : first_page(params)
    \/ next_page

SpecPages == InitPages /\ [][NextPages]_vars

\* The listing has come to its last page.
ListedAll == tasks.paging /\ last.listing[1].next_marker = Nothing

\* The stored records the listing is to name as Blob entries, and the
\* virtual prefixes it is to name.
UnderPrefix(name) == starts_with(name, unwrap_or(tasks.params.prefix, <<>>))
Remainder(name) ==
    SubSeq(name, Len(unwrap_or(tasks.params.prefix, <<>>)) + 1, Len(name))
InDirectory(name) ==
    /\ tasks.params.delimiter # Nothing
    /\ Occurrences(Remainder(name), tasks.params.delimiter[1]) # {}
MatchingBlobs ==
    {[name |-> k[2], snapshot |-> k[3]] :
        k \in {k \in DOMAIN blobs :
                  /\ k[1] = StoreContainer
                  /\ UnderPrefix(k[2])
                  /\ ~InDirectory(k[2])
                  /\ k[3] # BaseSnapshot => tasks.params.include_snapshots}}
MatchingPrefixes ==
    {unwrap_or(tasks.params.prefix, <<>>)
        \o SubSeq(Remainder(k[2]), 1,
                  FirstOf(Occurrences(Remainder(k[2]), tasks.params.delimiter[1])))
        \o tasks.params.delimiter[1] :
        k \in {k \in DOMAIN blobs :
                  k[1] = StoreContainer /\ UnderPrefix(k[2]) /\ InDirectory(k[2])}}

\* C39: a listing taken page by page, each request with the NextMarker of
\* the response before until none is returned, names every matching blob,
\* every matching snapshot (when snapshots are included) and every virtual
\* prefix exactly once, for any maxresults >= 1.
C39_PagesCoverOnce ==
    ListedAll =>
       /\ \A e \in MatchingBlobs :
             Count([i \in 1..Len(tasks.blobs) |->
                       [name |-> tasks.blobs[i].name,
                        snapshot |-> tasks.blobs[i].snapshot]], e) = 1
       /\ \A p \in MatchingPrefixes : Count(tasks.prefixes, p) = 1


(***************************************************************************)
(* handlers/blob.rs: download_blob with a Range header, in u64 and usize   *)
(* arithmetic.  The numbers of the handler are unsigned and of fixed width *)
(* (U64Values values here): a subtraction below zero or an addition past   *)
(* the width panics in a build with overflow checks and wraps in a build   *)
(* without.  A result of -1 stands for the panic.                          *)
(***************************************************************************)
u64_add(a, b, overflow_checks) ==
    IF a + b < U64Values THEN a + b
    ELSE IF overflow_checks THEN -1 ELSE a + b - U64Values
u64_sub(a, b, overflow_checks) ==
    IF a >= b THEN a - b
    ELSE IF overflow_checks THEN -1 ELSE a - b + U64Values

Panic == [err |-> "Panic"]

\* ExtentStore::read_range: "let end = start + count as usize", then
\* "extent.slice(start..end)", which panics when start > end.
read_range_usize(ext, chunk, offset, count, overflow_checks) ==
    IF chunk.id \notin DOMAIN ext
    THEN [err |-> "InternalError"]
    ELSE LET start == u64_add(chunk.offset, offset, overflow_checks)
             end == IF start < 0 THEN -1 ELSE u64_add(start, count, overflow_checks)
         IN IF start < 0 \/ end < 0 THEN Panic
            ELSE IF end > Len(ext[chunk.id]) THEN [err |-> "InternalError"]
            ELSE IF start > end THEN Panic
            ELSE [err |-> "OK", data |-> SubSeq(ext[chunk.id], start + 1, end)]

\* "for chunk in &blob.extent_chunks { ... }" of a range read.
RECURSIVE read_range_u64(_, _, _, _, _, _, _)
read_range_u64(ext, chunks, current_pos, start, length, bytes_read, overflow_checks) ==
    IF chunks = <<>> THEN [err |-> "OK", data |-> <<>>]
    ELSE LET chunk == Head(chunks)
             chunk_end == u64_add(current_pos, chunk.count, overflow_checks)
             upto == u64_add(start, length, overflow_checks)
             overlaps == current_pos < upto /\ chunk_end > start
             chunk_start == IF current_pos < start THEN start - current_pos ELSE 0
             chunk_read_end == Min(chunk.count, u64_sub(upto, current_pos, overflow_checks))
             bytes_to_read == u64_sub(chunk_read_end, chunk_start, overflow_checks)
             got == IF overlaps
                    THEN IF bytes_to_read < 0 THEN Panic
                         ELSE read_range_usize(ext, chunk, chunk_start, bytes_to_read,
                                               overflow_checks)
                    ELSE [err |-> "OK", data |-> <<>>]
             now_read == IF overlaps
                         THEN u64_add(bytes_read, bytes_to_read, overflow_checks)
                         ELSE bytes_read
         IN IF chunk_end < 0 \/ upto < 0 THEN Panic
            ELSE IF got.err # "OK" THEN got
            ELSE IF now_read < 0 THEN Panic
            ELSE IF now_read >= length THEN got
            ELSE LET rest == read_range_u64(ext, Tail(chunks), chunk_end, start,
                                            length, now_read, overflow_checks)
                 IN IF rest.err # "OK" THEN rest
                    ELSE [err |-> "OK", data |-> got.data \o rest.data]

\* "if let Some((start, end)) = ctx.range() { ... }"
download_range(ext, blob, start, end_header, overflow_checks) ==
    LET last_byte == saturating_sub(blob.content_length, 1)
        end == unwrap_or(end_header, last_byte)
        actual_end == Min(end, last_byte)
        diff == u64_sub(actual_end, start, overflow_checks)
        length == IF diff < 0 THEN -1 ELSE u64_add(diff, 1, overflow_checks)
        r == read_range_u64(ext, blob.extent_chunks, 0, start, length, 0, overflow_checks)
    IN IF start >= blob.content_length THEN [err |-> "InvalidRange"]
       ELSE IF length < 0 THEN Panic
       ELSE IF r.err # "OK" THEN r
       ELSE [err |-> "OK", status |-> 206, data |-> r.data,
             content_range |-> Some(<<start, actual_end, blob.content_length>>)]

\* GET /{container}/{blob} with "Range: bytes=start-[end]".  A handler that
\* panics sends no response: the connection is closed.
download_blob_range(c, b, start, end_header) ==
    LET op == "download_blob"
        r == get_blob(c, b, BaseSnapshot)
        d == download_range(extents, r.blob, start, end_header, tasks.overflow_checks)
    IN /\ tasks' = [tasks EXCEPT !.range = Some([start |-> start, end |-> end_header])]
       /\ last' = IF r.err # "OK"
                  THEN Response(op, c, b, BaseSnapshot, r.err, status_code(r.err), <<>>)
                  ELSE IF d.err = "Panic"
                  THEN Response(op, c, b, BaseSnapshot, "Panic", 0, <<>>)
                  ELSE IF d.err # "OK"
                  THEN Response(op, c, b, BaseSnapshot, d.err, status_code(d.err), <<>>)
                  ELSE [Response(op, c, b, BaseSnapshot, "OK", d.status, <<>>) EXCEPT
                           !.data = d.data, !.content_range = d.content_range]
       /\ UNCHANGED <<containers, blobs, blob_index, blocks, block_index,
                      extents, nextEtag, nextExtent, clock, served>>

\* The build: with or without overflow checks.  The store holds container c1.
InitRange ==
    /\ containers = Put(EmptyMap, StoreContainer, ContainerModel_new(0))
    /\ blobs = EmptyMap
    /\ blob_index = EmptyMap
    /\ blocks = EmptyMap
    /\ block_index = EmptyMap
    /\ extents = EmptyMap
    /\ nextEtag = 0
    /\ nextExtent = 0
    /\ clock = 0
    /\ last = Response("none", None, None, BaseSnapshot, "OK", 200, <<>>)
    /\ served = 0
    /\ \E overflow_checks \in BOOLEAN :
          tasks = [overflow_checks |-> overflow_checks, range |-> Nothing]

AcceptRange == served < MaxRangeRequests /\ served' = served + 1
RangeBodies == {<<>>, <<1>>, <<1, 2, 3>>}

NextRange ==
    \/ \E body \in RangeBodies :
          AcceptRange /\ upload_block_blob(StoreContainer, StoreBlob, None, body, EmptyMeta)
    \/ AcceptRange /\ create_append_blob(StoreContainer, StoreBlob, None, EmptyMeta)
    \/ \E body \in RangeBodies :
          AcceptRange /\ append_block(StoreContainer, StoreBlob, None, body)
    \/ \E start \in 0..MaxOffset, end \in Optional(0..MaxOffset) :
          download_blob_range(StoreContainer, StoreBlob, start, end)

SpecRange == InitRange /\ [][NextRange]_vars

\* The last request was a download of a stored blob with a Range header
\* whose end is before its start, and the start is inside the blob.
EndBeforeStart ==
    /\ last.op = "download_blob"
    /\ tasks.range # Nothing
    /\ tasks.range[1].end # Nothing
    /\ tasks.range[1].end[1] < tasks.range[1].start
    /\ <<StoreContainer, StoreBlob, BaseSnapshot>> \in DOMAIN blobs
    /\ tasks.range[1].start < blobs[<<StoreContainer, StoreBlob, BaseSnapshot>>].content_length

\* C40: a download with a Range header whose end is before its start (and
\* whose start is inside the blob) does not underflow end - start + 1: the
\* handler does not panic, and the request is rejected with InvalidRange or
\* answered 206 with the bytes of a range whose start is not after its end.
C40_RangeNoUnderflow ==
    EndBeforeStart =>
       /\ last.code # "Panic"
       /\ \/ last.code = "InvalidRange"
          \/ /\ last.status = 206
             /\ last.content_range[1][1] <= last.content_range[1][2]
             /\ Len(last.data) = last.content_range[1][2] - last.content_range[1][1] + 1

====
